---- MODULE Spec2Model ----
(***************************************************************************)
(* unipi-daemon: the command gate (emergency_override.py), the relay       *)
(* driver (i2c_relay.py), the broker-to-relay bridge with its auto-off     *)
(* timers (mqtt_relay_bridge.py), the gated adapter and the wiring of the  *)
(* daemon (main.py) and the relay / emergency-clear routes (rest_api.py).  *)
(*                                                                         *)
(* Threads: the asyncio loop thread runs the GPIO callback and the REST    *)
(* handlers (one at a time, a handler without await is atomic with respect *)
(* to the other handlers of the loop); the bridge's paho thread runs       *)
(* _on_message, one message at a time; every threading.Timer runs its      *)
(* _auto_off callback on a thread of its own.  Threads interleave between  *)
(* statements, so every handler that runs beside another thread is cut     *)
(* into one action per shared-state access.                                *)
(***************************************************************************)
EXTENDS Integers, Sequences, FiniteSets, TLC

\* ------------------------------------------------------------------ bounds
MaxTime == 3          \* the monotonic clock runs 1..MaxTime
MaxMsgs == 2          \* set messages published to the broker in one run
MaxEvents == 2        \* GPIO edge events delivered in one run
MaxFaults == 1        \* I2C / broker calls that raise in one run
MaxBridgeMsgs == 3    \* set messages of one run of the bridge taken alone
lockout_seconds == 2  \* CommandGate(lockout_seconds=...), 300 by default
MaxEdges == 3         \* edge events the kernel reports to the watcher

\* The inputs the environment draws from.
Requests ==          \* POST /api/relay/{ch} {value, duration_sec, reason}
    {[ch |-> 1, value |-> 1, dur |-> TRUE, reason |-> "vent"],
     [ch |-> 1, value |-> 0, dur |-> FALSE, reason |-> ""],
     [ch |-> 2, value |-> 1, dur |-> TRUE, reason |-> "mist"]}
\* set messages as they arrive: the channel segment of the topic and the
\* payload text
SetMessages ==
    {[topic_ch |-> "1", payload |-> "{\"value\": 1, \"duration_sec\": 5}"],
     [topic_ch |-> "1", payload |-> "{}"],
     [topic_ch |-> "x", payload |-> "{\"value\": 1, \"duration_sec\": 5}"],
     [topic_ch |-> "9", payload |-> "{\"value\": 0}"],
     [topic_ch |-> "1", payload |-> "off"],
     [topic_ch |-> "1", payload |-> "[0]"],
     [topic_ch |-> "1", payload |-> "{\"value\": \"off\"}"],
     [topic_ch |-> "1", payload |-> "{\"value\": 0, \"duration_sec\": null}"]}
DriverChannels == {0, 1, 2, 8, 9}  \* channel arguments of driver calls
DriverMasks == {0, 129, 255, 384}  \* set_all arguments: 0x00 0x81 0xFF 0x180
Keys == {"", "k"}                \* rest_api.api_key of the configuration
Headers == {"", "k", "x"}        \* X-API-Key of a request, "" = absent
InputPins == {6, 7, 14}          \* di_pin of a GPIO event (6 has no relay)
DaemonPins == {6, 7}             \* the same beside the bridge: the switch of
                                 \* a channel the bridge is commanding
NoTimer == 0                     \* dict.pop(ch, None) -> None

VARIABLES
    now,            \* time.monotonic(), whole seconds
    lockout_until,  \* CommandGate._lockout_until
    olat,           \* MCP23008Relay._olat, the shadow mask
    hw_olat,        \* the OLAT register of the chip
    gate_mqtt,      \* CommandGate.mqtt_client is not None
    rest_mqtt,      \* RestApi._mqtt_client is not None
    queue,          \* set messages the broker has for the bridge, in order
    timers,         \* MqttRelayBridge._timers: ch -> timer id, NoTimer = absent
    timer,          \* the threading.Timer objects: id -> [ch, st, pc]
    br,             \* the bridge's paho thread inside _on_message
    gp,             \* the loop thread inside handle_gpio_event
    resp,           \* the last REST response
    n_msgs,         \* set messages published so far
    n_events,       \* GPIO events delivered so far
    n_faults,       \* calls that raised so far
    closeAt,        \* observation: when the last close event set the deadline
    api_key,        \* RestApi._api_key, "" = no key configured
    drv_call,       \* the driver taken alone: its last call and how it ended
    th,             \* the driver's callers inside set_relay, one per thread
    tasks,          \* UnipiDaemon.run and the five tasks it created
    wt,             \* the GPIO watcher taken alone: descriptor, batch, calls
    ws,             \* the weather reader taken alone: bytes, frame, publish
    sd,             \* run() from the signal on: gather, clients, relay.close
    sc,             \* SensorCache, the copies it returned, GET /api/sensors
    lk,             \* the bridge's _timers_lock and the call of disconnect()
    rf              \* one call of read_frame, read by read

vars == <<now, lockout_until, olat, hw_olat, gate_mqtt, rest_mqtt, queue,
          timers, timer, br, gp, resp, n_msgs, n_events, n_faults, closeAt,
          api_key, drv_call, th, tasks, wt, ws, sd, sc, lk, rf>>

Channels == 1..8

\* the tasks of UnipiDaemon.run; gpio_watch is the emergency path
NonSafetyTasks == {"sensor_loop", "mqtt_loop", "rest_api", "ccm_loop"}
AllTasks == NonSafetyTasks \cup {"gpio_watch"}
TimerIds == 1..MaxBridgeMsgs

\* --------------------------------------------------- WH65LP weather frames
SYNC_BYTE == 36                  \* 0x24
FRAME_LEN_BASE == 17
FRAME_LEN_EXT == 21
SENTINEL_WIND_DIR == 511         \* 0x1FF
SENTINEL_TEMP == 2047            \* 0x7FF
SENTINEL_WIND == 511             \* 0x1FF
SENTINEL_GUST == 255             \* 0xFF
SENTINEL_UV == 65535             \* 0xFFFF
SENTINEL_LIGHT == 16777215       \* 0xFFFFFF
None == -9999                    \* Python's None in a decoded field

\* bytes are sequences of 0..255; data[k] of the code is data[k + 1] here
RECURSIVE SumSeq(_)
SumSeq(q) == IF q = <<>> THEN 0 ELSE Head(q) + SumSeq(Tail(q))

\* data[a:b]
Slice(data, a, b) ==
    SubSeq(data, a + 1, IF b < Len(data) THEN b ELSE Len(data))

\* (byte & mask) != 0 for a one-bit mask
BitOf(byte, mask) == (byte \div mask) % 2

\* a check that compares the whole sum with byte 16
verify_checksum_no_mask(data) ==
    IF Len(data) < FRAME_LEN_BASE THEN FALSE
    ELSE SumSeq(Slice(data, 0, 16)) = data[17]

\* verify_checksum: (sum(data[0:16]) & 0xFF) == data[16]
verify_checksum(data) ==
    IF Len(data) < FRAME_LEN_BASE THEN FALSE
    ELSE (SumSeq(Slice(data, 0, 16)) % 256) = data[17]

\* the raw bit groups parse_frame assembles
wind_dir_raw(data) == data[3] + BitOf(data[4], 128) * 256
temp_raw(data) == data[5] + (data[4] % 8) * 256
wind_raw(data) == data[7] + BitOf(data[4], 16) * 256
gust_raw(data) == data[8]
rain_raw(data) == data[9] * 256 + data[10]
uv_raw(data) == data[11] * 256 + data[12]
light_raw(data) == data[13] * 65536 + data[14] * 256 + data[15]

\* parse_frame raised ValueError
ParseError ==
    [raised |-> TRUE, wind_dir_deg |-> None, temperature_c |-> None,
     humidity_pct |-> None, wind_speed_ms |-> None, gust_speed_ms |-> None,
     rainfall_mm |-> None, uv_wm2 |-> None, light_lux |-> None,
     pressure_hpa |-> None, battery_low |-> FALSE]

\* a decoder that takes a field for invalid when its low byte is all ones
parse_frame_low_byte(data) ==
    IF Len(data) < FRAME_LEN_BASE THEN ParseError
    ELSE
    [raised |-> FALSE,
     wind_dir_deg |-> IF data[3] = 255 THEN None ELSE wind_dir_raw(data),
     temperature_c |-> IF data[5] = 255 THEN None ELSE temp_raw(data) - 400,
     humidity_pct |-> data[6],
     wind_speed_ms |-> IF data[7] = 255 THEN None ELSE wind_raw(data) * 14,
     gust_speed_ms |-> IF gust_raw(data) = SENTINEL_GUST THEN None
                       ELSE gust_raw(data) * 112,
     rainfall_mm |-> rain_raw(data) * 3,
     uv_wm2 |-> IF data[12] = 255 THEN None ELSE uv_raw(data),
     light_lux |-> IF data[15] = 255 THEN None ELSE light_raw(data),
     pressure_hpa |-> IF Len(data) >= FRAME_LEN_EXT
                      THEN data[18] * 65536 + data[19] * 256 + data[20]
                      ELSE None,
     battery_low |-> BitOf(data[4], 8) = 1]

\* parse_frame. The decoded numbers are kept as integers in the unit of
\* their last decimal: temperature_c, rainfall_mm, uv_wm2, light_lux in
\* tenths ((raw - 400) / 10, raw * 0.3, raw / 10), wind_speed_ms and
\* gust_speed_ms in hundredths (raw / 8 * 1.12 = raw * 0.14, raw * 1.12),
\* pressure_hpa in hundredths before its rounding to one decimal.
parse_frame(data) ==
    IF Len(data) < FRAME_LEN_BASE THEN ParseError
    ELSE
    [raised |-> FALSE,
     wind_dir_deg |-> IF wind_dir_raw(data) = SENTINEL_WIND_DIR THEN None
                      ELSE wind_dir_raw(data),
     temperature_c |-> IF temp_raw(data) = SENTINEL_TEMP THEN None
                       ELSE temp_raw(data) - 400,
     humidity_pct |-> data[6],
     wind_speed_ms |-> IF wind_raw(data) = SENTINEL_WIND THEN None
                       ELSE wind_raw(data) * 14,
     gust_speed_ms |-> IF gust_raw(data) = SENTINEL_GUST THEN None
                       ELSE gust_raw(data) * 112,
     rainfall_mm |-> rain_raw(data) * 3,
     uv_wm2 |-> IF uv_raw(data) = SENTINEL_UV THEN None ELSE uv_raw(data),
     light_lux |-> IF light_raw(data) = SENTINEL_LIGHT THEN None
                   ELSE light_raw(data),
     pressure_hpa |-> IF Len(data) >= FRAME_LEN_EXT
                      THEN data[18] * 65536 + data[19] * 256 + data[20]
                      ELSE None,
     battery_low |-> BitOf(data[4], 8) = 1]

\* the bytes from the first sync byte on; <<>> when there is none
RECURSIVE SkipToSync(_)
SkipToSync(stream) ==
    IF stream = <<>> THEN <<>>
    ELSE IF Head(stream) = SYNC_BYTE THEN stream
    ELSE SkipToSync(Tail(stream))

\* read_frame's result: frame = <<>> is None
NoFrame == <<>>

\* a reader that returns the 17 bytes without the checksum test
read_frame_unchecked(stream) ==
    LET s == SkipToSync(stream)
    IN  IF Len(s) < FRAME_LEN_BASE THEN NoFrame
        ELSE IF Len(s) >= FRAME_LEN_EXT THEN SubSeq(s, 1, FRAME_LEN_EXT)
        ELSE SubSeq(s, 1, FRAME_LEN_BASE)

\* read_frame on the bytes the port delivers before it times out: skip to
\* the sync byte, read_exact(16), verify_checksum, then ser.read(4)
read_frame(stream) ==
    LET s == SkipToSync(stream)
    IN  IF Len(s) < FRAME_LEN_BASE THEN NoFrame
        ELSE IF ~verify_checksum(SubSeq(s, 1, FRAME_LEN_BASE)) THEN NoFrame
        ELSE IF Len(s) >= FRAME_LEN_EXT THEN SubSeq(s, 1, FRAME_LEN_EXT)
        ELSE SubSeq(s, 1, FRAME_LEN_BASE)

\* the frames the station sends: make_frame of the protocol tests, with the
\* raw groups at, beside and away from their sentinels
WindDirRaws == {SENTINEL_WIND_DIR, 255, 270}
TempRaws == {SENTINEL_TEMP, 1023, 650}
WindRaws == {SENTINEL_WIND, 255, 16}
GustRaws == {SENTINEL_GUST, 8}
UvRaws == {SENTINEL_UV, 100}
LightRaws == {SENTINEL_LIGHT, 16776960}
ByteDeltas == {1, 128, 255}      \* what a changed byte differs by, mod 256
Prefixes == {<<>>, <<0, 7>>, <<SYNC_BYTE>>}  \* bytes read before the frame
Extension == <<1, 138, 236, 0>>  \* pressure 1013.24 hPa and a trailing byte

make_frame(wd, t, w, g, uv, light, battery_low) ==
    LET body == <<SYNC_BYTE, 0, wd % 256,
                  (wd \div 256) * 128 + (t \div 256) + (w \div 256) * 16
                      + battery_low * 8,
                  t % 256, 70, w % 256, g, 0, 10,
                  uv \div 256, uv % 256,
                  light \div 65536, (light \div 256) % 256, light % 256, 0>>
    IN  Append(body, SumSeq(body) % 256)

Frames ==
    {make_frame(wd, t, w, g, uv, light, b) :
        wd \in WindDirRaws, t \in TempRaws, w \in WindRaws, g \in GustRaws,
        uv \in UvRaws, light \in LightRaws, b \in {0, 1}}

\* what the port delivers during one call of read_frame: noise or nothing
\* before a frame, whole or cut short or with a wrong checksum byte or no
\* frame at all, and
\* none, half or all of the pressure extension after it
GoodFrame == make_frame(270, 650, 16, 8, 100, 16776960, 0)
SyncDeadline == 3                \* sync_timeout in reads of the sync loop
PortStreams ==
    {prefix \o body \o ext :
        prefix \in Prefixes \cup {<<0, 7, 1, 2>>},
        body \in {<<>>, GoodFrame, SubSeq(GoodFrame, 1, 9),
                  [GoodFrame EXCEPT ![17] = (@ + 1) % 256]},
        ext \in {<<>>, SubSeq(Extension, 1, 2), Extension}}

\* ------------------------------------------------------------ GPIO watcher
\* GPIO_DI_MAP.get(line_offset): the DI pin of a line offset, 0 = None
GPIO_DI_MAP(line_offset) ==
    CASE line_offset = 11 -> 7
      [] line_offset = 7  -> 8
      [] line_offset = 8  -> 9
      [] line_offset = 9  -> 10
      [] line_offset = 25 -> 11
      [] line_offset = 10 -> 12
      [] line_offset = 31 -> 13
      [] line_offset = 30 -> 14
      [] OTHER -> 0

\* the edge events the kernel can report: two watched lines and a line
\* offset that is not in the map
LineOffsets == {11, 7, 5}
EdgeTypes == {"FALLING_EDGE", "RISING_EDGE"}
RawEvents == [line_offset : LineOffsets, event_type : EdgeTypes]

\* DI_GPIO_MAP: the line offset of a DI pin, -1 for a pin without one
DI_GPIO_MAP(di_pin) ==
    CASE di_pin = 7  -> 11
      [] di_pin = 8  -> 7
      [] di_pin = 9  -> 8
      [] di_pin = 10 -> 9
      [] di_pin = 11 -> 25
      [] di_pin = 12 -> 10
      [] di_pin = 13 -> 31
      [] di_pin = 14 -> 30
      [] OTHER -> -1

\* a translation that reports the line's level instead of the switch
to_gpio_event_level(raw) ==
    [di_pin |-> GPIO_DI_MAP(raw.line_offset), gpio_line |-> raw.line_offset,
     value |-> IF raw.event_type = "FALLING_EDGE" THEN 0 ELSE 1]

\* GPIOEvent(di_pin, gpio_line, value) of one raw event
to_gpio_event(raw) ==
    [di_pin |-> GPIO_DI_MAP(raw.line_offset), gpio_line |-> raw.line_offset,
     value |-> IF raw.event_type = "FALLING_EDGE" THEN 1 ELSE 0]

\* a read_events that returns the newest event first
RECURSIVE read_events_newest_first(_)
read_events_newest_first(raws) ==
    IF raws = <<>> THEN <<>>
    ELSE LET rest == read_events_newest_first(Tail(raws))
         IN  IF GPIO_DI_MAP(Head(raws).line_offset) = 0
             THEN rest
             ELSE Append(rest, to_gpio_event(Head(raws)))

\* GPIOWatcher.read_events: the pending edge events in the order read, those
\* of unknown line offsets skipped
RECURSIVE read_events(_)
read_events(raws) ==
    IF raws = <<>> THEN <<>>
    ELSE LET rest == read_events(Tail(raws))
         IN  IF GPIO_DI_MAP(Head(raws).line_offset) = 0
             THEN rest
             ELSE <<to_gpio_event(Head(raws))>> \o rest

\* a loop over the batch that lets the callback's exception out: the rest of
\* the batch is lost and the loop drops the reader
after_callback_unguarded(events, ok) ==
    IF ok THEN [events |-> Tail(events), reader |-> TRUE]
    ELSE [events |-> <<>>, reader |-> FALSE]

\* _on_readable's loop body: try: callback(event) except Exception: log
after_callback(events, ok) == [events |-> Tail(events), reader |-> TRUE]

\* ------------------------------------------------------------ relay driver
\* a straight wiring: ch1 = bit0 ... ch8 = bit7
ch_to_bit_straight(channel) ==
    IF channel >= 1 /\ channel <= 8 THEN 2 ^ (channel - 1) ELSE 0

\* a mapping that clamps a channel outside 1..8 instead of raising
ch_to_bit_clamped(channel) ==
    IF channel < 1 THEN 128 ELSE IF channel > 8 THEN 1 ELSE 2 ^ (8 - channel)

\* MCP23008Relay.ch_to_bit: ch1 = bit7 ... ch8 = bit0 (0 stands for ValueError)
ch_to_bit(channel) ==
    IF channel >= 1 /\ channel <= 8 THEN 2 ^ (8 - channel) ELSE 0

HasBit(mask, bit) == (mask \div bit) % 2 = 1

\* a set_relay that can only switch on
set_relay_olat_set_only(mask, channel, on) ==
    IF (mask \div ch_to_bit(channel)) % 2 = 1 THEN mask
    ELSE mask + ch_to_bit(channel)

\* the shadow after set_relay's  _olat |= bit  /  _olat &= ~bit & 0xFF
set_relay_olat(mask, channel, on) ==
    LET bit == ch_to_bit(channel)
    IN  IF on THEN (IF HasBit(mask, bit) THEN mask ELSE mask + bit)
        ELSE (IF HasBit(mask, bit) THEN mask - bit ELSE mask)

\* ----------------------------------------------------------- command gate
\* a map that also knows DI06
DI_RELAY_MAP_with_6(di_pin) ==
    IF di_pin = 6 THEN 1
    ELSE IF di_pin >= 7 /\ di_pin <= 14 THEN di_pin - 6 ELSE 0

\* DI_RELAY_MAP.get(di_pin); 0 stands for None
DI_RELAY_MAP(di_pin) ==
    IF di_pin >= 7 /\ di_pin <= 14 THEN di_pin - 6 ELSE 0

is_locked_out(t, until) == t < until

remaining_lockout(t, until) == IF until - t > 0 THEN until - t ELSE 0

\* a clear that starts a lockout period instead of ending it
clear_lockout_full_period == lockout_seconds + MaxTime

\* clear_lockout: the deadline goes back to 0.0
clear_lockout == 0

\* a gate that drops when it is open and calls when it is locked
gate_inverted(locked) == IF locked THEN "call" ELSE "drop"

\* a gate that never drops
gate_always_calls(locked) == "call"

\* CommandGate.gate: a locked gate drops the command, an open one calls it
gate(locked) == IF locked THEN "drop" ELSE "call"

\* an emergency write sent through gate() like a commanded one
handle_gpio_event_gated(locked) == gate(locked)

\* handle_gpio_event, step 1: self.relay.set_relay(relay_ch, state) is called
\* on the driver itself, whatever is_locked_out() says
handle_gpio_event_write(locked) == "call"

\* a handler without the try around the relay write
relay_reraise(ok) == "raise"

\* handle_gpio_event, step 1: try: relay.set_relay(...) except Exception: log
\* (where the handler continues after the driver call returned or raised)
relay_try_except(ok) == "publish"

\* _publish_override: try: mqtt_client.publish(...) except Exception: log
publish_try_except(ok) == "lock"

\* a notice that announces the lockout for every edge
publish_override_always_lockout(di_pin, relay_ch, state) ==
    [topic |-> "emergency/override", qos |-> 1, retain |-> TRUE,
     di_pin |-> di_pin, relay_ch |-> relay_ch, state |-> state,
     lockout_sec |-> lockout_seconds]

\* _publish_override: what is published to agriha/{house}/emergency/override
\* (the timestamp is left out)
publish_override(di_pin, relay_ch, state) ==
    [topic |-> "emergency/override", qos |-> 1, retain |-> TRUE,
     di_pin |-> di_pin, relay_ch |-> relay_ch, state |-> state,
     lockout_sec |-> IF state THEN lockout_seconds ELSE 0]

\* a deadline counted from 0 instead of from the clock
lockout_update_from_zero(state, t, until) ==
    IF state THEN lockout_seconds ELSE until

\* a deadline restarted by every edge, open or close
lockout_update_any_edge(state, t, until) == t + lockout_seconds

\* a deadline that an open event takes back
lockout_update_open_clears(state, t, until) ==
    IF state THEN t + lockout_seconds ELSE 0

\* handle_gpio_event, step 3: if state: _lockout_until = monotonic() + lockout
lockout_update(state, t, until) == IF state THEN t + lockout_seconds ELSE until

\* a bridge constructed with the bare driver
BridgeRelayIsRaw == FALSE

\* main.py: the bridge is constructed with relay=_GatedRelay(relay, gate)
BridgeRelayIsGated == TRUE

\* --------------------------------------------------------------- REST API
\* a dependency that lets a request without the header through
check_key_absent_passes(key, x_api_key) ==
    IF key # "" /\ x_api_key # "" /\ x_api_key # key THEN 403 ELSE 0

\* _make_api_key_dep._check: if api_key and x_api_key != api_key: 403
\* (0 = the request goes on to the handler)
check_key(key, x_api_key) ==
    IF key # "" /\ x_api_key # key THEN 403 ELSE 0

\* POST /api/relay/{ch}: status code and error of the response
set_relay_response(locked, mqtt_available) ==
    IF locked THEN [status |-> 423, error |-> "locked_out"]
    ELSE IF mqtt_available THEN [status |-> 202, error |-> ""]
    ELSE [status |-> 503, error |-> "mqtt_unavailable"]

\* a route that publishes without asking the gate
set_relay_publish_unguarded(locked, mqtt_available, ch, value, dur, reason) ==
    IF mqtt_available
    THEN <<[ch |-> ch, value |-> value, dur |-> dur, reason |-> reason]>>
    ELSE <<>>

\* a route whose payload leaves duration_sec out
set_relay_publish_no_duration(locked, mqtt_available, ch, value, dur, reason) ==
    IF ~locked /\ mqtt_available
    THEN <<[ch |-> ch, value |-> value, dur |-> FALSE, reason |-> reason]>>
    ELSE <<>>

\* POST /api/relay/{ch}: what is published to agriha/{house}/relay/{ch}/set
\* (the record's ch is the {ch} of the topic, the rest is the payload)
set_relay_publish(locked, mqtt_available, ch, value, dur, reason) ==
    IF ~locked /\ mqtt_available
    THEN <<[ch |-> ch, value |-> value, dur |-> dur, reason |-> reason]>>
    ELSE <<>>

\* a status route that refuses during the lockout as the relay route does
get_status_code_refuses_locked(locked) == IF locked THEN 423 ELSE 200

\* GET /api/status: JSONResponse(content=...) whatever the gate says
get_status_code(locked) == 200

\* relay_state of GET /api/status: the register read by get_state(), or null
\* when the read raised
NullState == -1
get_status_relay_state(read_ok, reg) == IF read_ok THEN reg ELSE NullState

\* MCP23008Relay.get_relay: bool(get_state() & bit), read from the register
get_relay(reg, channel) == HasBit(reg, ch_to_bit(channel))

\* MCP23008Relay.set_all: self._olat = bitmask & 0xFF
set_all_olat(bitmask) == bitmask % 256

\* ------------------------------------------------------------------- Init
IdleGpio ==
    [pc |-> "idle", pin |-> 0, value |-> 0, ch |-> 0, calls |-> 0,
     call_ch |-> 0, call_on |-> FALSE, relay_ok |-> TRUE, pubs |-> 0,
     pub_ok |-> TRUE, result |-> "none", locked0 |-> FALSE, alone |-> FALSE,
     payload |-> <<>>]

IdleBridge ==
    [pc |-> "idle", ch |-> 0, value |-> 0, dur |-> FALSE,
     existing |-> NoTimer, glocked |-> FALSE, inv |-> 0, ret |-> "none",
     dropped |-> 0, kept |-> NoTimer]

NoTimerObject ==
    [ch |-> 0, st |-> "none", pc |-> "-", glocked |-> FALSE, inv |-> 0,
     ret |-> "none"]

\* the last response, with the key and the request it answered
NoResponse ==
    [kind |-> "none", status |-> 0, error |-> "", remaining |-> 0,
     published |-> FALSE, locked |-> FALSE, x_api_key |-> "",
     rq |-> <<>>, relay_state |-> NullState]

\* the threads that call the driver: the loop thread (emergency path), the
\* bridge's broker thread and an auto-off timer thread
Threads == {"loop", "bridge", "timer"}

NoCall ==
    [op |-> "none", ch |-> 0, on |-> FALSE, mask |-> 0, result |-> "none",
     olat0 |-> 0, writes |-> 0]

IdleThread == [pc |-> "idle", ch |-> 0, on |-> FALSE, tmp |-> 0]

\* the weather reader before any frame
IdleSensor ==
    [pc |-> "idle", data |-> <<>>, sent |-> <<>>, changed |-> 0,
     valid |-> FALSE, parsed |-> ParseError, stream |-> <<>>,
     frame |-> NoFrame, parse_calls |-> 0, published |-> <<>>]

\* the topics the REST API's broker client caches, and the values of the
\* field of a message's JSON object (0: no such object)
Topics == {"sensor/DS18B20", "weather/misol"}
Readings == {1, 2}
MaxLeaves == 4

\* the dict objects: SensorCache._data and the dict a get_all() returned
DataDict == 1
CopyDict == 2
NoDict == 0
NoLeaf == 0

\* SensorCache.__init__, with no GET /api/sensors in progress. dicts and
\* leaves are the heap: a dict maps a topic to the object stored under it.
EmptyCache ==
    [dicts      |-> [d \in {DataDict, CopyDict} |-> [k \in Topics |-> NoLeaf]],
     leaves     |-> [i \in 1..MaxLeaves |-> 0],
     used       |-> 0,
     updated_at |-> 0,
     returned   |-> NoDict,
     op         |-> "init",
     pc         |-> "idle",
     response   |-> [sensors |-> [k \in Topics |-> 0], updated_at |-> 0,
                     age_null |-> TRUE, sent |-> FALSE]]

\* read_frame not called
NotReading ==
    [pc |-> "idle", clock |-> 0, input |-> <<>>, consumed |-> <<>>,
     buf |-> <<>>, result |-> NoFrame]

\* _timers_lock free, disconnect() not called, the relay driver open
Unlocked ==
    [holder |-> "none", id |-> NoTimer, dc |-> "idle", closed |-> FALSE]

\* run() waiting for the signal; sensor = the sensor loop's broker client
\* was connected
WaitingForSignal(sensor) ==
    [pc |-> "waiting", sensor_mqtt |-> sensor, logged |-> {}, closes |-> <<>>]

\* the watcher after watch() has registered the reader
IdleWatcher ==
    [reader |-> TRUE, kernel |-> <<>>, events |-> <<>>, calls |-> <<>>,
     reported |-> <<>>, reads |-> 0, edges |-> 0]

InitParts(key, sd0) ==
    /\ sd = sd0
    /\ sc = EmptyCache
    /\ lk = Unlocked
    /\ rf = NotReading
    /\ api_key = key
    /\ wt = IdleWatcher
    /\ ws = IdleSensor
    /\ tasks = [t \in AllTasks \cup {"run"} |-> "running"]
    /\ drv_call = NoCall
    /\ th = [t \in Threads |-> IdleThread]
    /\ now = 1
    /\ lockout_until = 0
    /\ olat = 0
    /\ hw_olat = 0
    /\ gate_mqtt \in BOOLEAN
    /\ rest_mqtt \in BOOLEAN
    /\ queue = <<>>
    /\ timers = [c \in Channels |-> NoTimer]
    /\ timer = [i \in TimerIds |-> NoTimerObject]
    /\ br = IdleBridge
    /\ gp = IdleGpio
    /\ resp = NoResponse
    /\ n_msgs = 0
    /\ n_events = 0
    /\ n_faults = 0
    /\ closeAt = 0

InitWith(key) == InitParts(key, WaitingForSignal(TRUE))

\* the daemon with or without a broker for the sensor loop's client
InitShutdown == \E sensor \in BOOLEAN : InitParts("", WaitingForSignal(sensor))

\* the daemon with the default configuration: rest_api.api_key is ""
Init == InitWith("")

\* the daemon with or without an API key configured
InitRest == \E key \in Keys : InitWith(key)

gateV == <<lockout_until, closeAt>>
miscV == <<sd, sc, lk, rf>>
fixedV == <<gate_mqtt, api_key, wt, ws, miscV>>
cfgV == <<fixedV, rest_mqtt, tasks>>
unitV == <<drv_call, th>>
drvV == <<olat, hw_olat>>
timerV == <<timers, timer>>
restV == <<resp, n_msgs>>

\* the outcomes of a hardware or broker call: TRUE = returned, FALSE = raised
Outcomes == IF n_faults < MaxFaults THEN {TRUE, FALSE} ELSE {TRUE}

\* ------------------------------------------------------------------ clock
Tick ==
    /\ now < MaxTime
    /\ now' = now + 1
    /\ UNCHANGED <<gateV, cfgV, unitV, drvV, timerV, restV, queue, br, gp, n_events,
                   n_faults>>

\* MCP23008Relay.set_relay: the shadow is updated, then the register is
\* written; ok = the I2C write did not raise.
DriverSetRelay(ch, on, ok) ==
    /\ olat' = set_relay_olat(olat, ch, on)
    /\ hw_olat' = IF ok THEN olat' ELSE hw_olat
    /\ n_faults' = IF ok THEN n_faults ELSE n_faults + 1

\* what the driver's own calls leave alone
daemonV == <<now, gateV, cfgV, timerV, restV, queue, br, gp, n_events>>

\* ------------------------------------------- the driver taken alone
\* one caller, one call at a time: set_relay(channel, on); a channel outside
\* 1..8 raises ValueError in ch_to_bit before anything is touched
DrvSetRelay ==
    /\ \E ch \in DriverChannels, on \in BOOLEAN, ok \in Outcomes :
         LET call == [NoCall EXCEPT !.op = "set_relay", !.ch = ch, !.on = on,
                                    !.olat0 = olat]
         IN  IF ch_to_bit(ch) = 0
             THEN /\ drv_call' = [call EXCEPT !.result = "ValueError"]
                  /\ UNCHANGED <<drvV, n_faults>>
             ELSE /\ DriverSetRelay(ch, on, ok)
                  /\ drv_call' = [call EXCEPT
                                    !.result = IF ok THEN "ok" ELSE "OSError",
                                    !.writes = 1]
    /\ UNCHANGED <<daemonV, th>>

\* set_all(bitmask): the shadow takes the low byte, then the register is
\* written
DrvSetAll ==
    /\ \E mask \in DriverMasks, ok \in Outcomes :
         /\ olat' = set_all_olat(mask)
         /\ hw_olat' = IF ok THEN olat' ELSE hw_olat
         /\ n_faults' = IF ok THEN n_faults ELSE n_faults + 1
         /\ drv_call' = [NoCall EXCEPT
                           !.op = "set_all", !.mask = mask, !.olat0 = olat,
                           !.result = IF ok THEN "ok" ELSE "OSError",
                           !.writes = 1]
    /\ UNCHANGED <<daemonV, th>>

\* all_off(): set_all(0x00)
DrvAllOff ==
    /\ \E ok \in Outcomes :
         /\ olat' = set_all_olat(0)
         /\ hw_olat' = IF ok THEN olat' ELSE hw_olat
         /\ n_faults' = IF ok THEN n_faults ELSE n_faults + 1
         /\ drv_call' = [NoCall EXCEPT
                           !.op = "all_off", !.olat0 = olat,
                           !.result = IF ok THEN "ok" ELSE "OSError",
                           !.writes = 1]
    /\ UNCHANGED <<daemonV, th>>

\* get_relay(channel): ch_to_bit, then the register is read
DrvGetRelay ==
    /\ \E ch \in DriverChannels, ok \in Outcomes :
         LET call == [NoCall EXCEPT !.op = "get_relay", !.ch = ch,
                                    !.olat0 = olat]
         IN  /\ drv_call' =
                   IF ch_to_bit(ch) = 0
                   THEN [call EXCEPT !.result = "ValueError"]
                   ELSE IF ~ok THEN [call EXCEPT !.result = "OSError"]
                   ELSE [call EXCEPT
                           !.result = IF get_relay(hw_olat, ch) THEN "True"
                                      ELSE "False"]
             /\ n_faults' = IF ch_to_bit(ch) # 0 /\ ~ok THEN n_faults + 1
                            ELSE n_faults
    /\ UNCHANGED <<daemonV, drvV, th>>

\* ------------------------------------------- the driver under its callers
\* set_relay has no lock: the statements of one call interleave with those of
\* a call on another thread.  One call per thread, cut at every access to
\* self._olat and at the bus transfer.

\* thread t enters set_relay(ch, on); bit = ch_to_bit(channel)
ThEnter(t) ==
    /\ th[t].pc = "idle"
    /\ \E ch \in DriverChannels \cap Channels, on \in BOOLEAN :
         th' = [th EXCEPT ![t] = [IdleThread EXCEPT !.pc = "load", !.ch = ch,
                                                    !.on = on]]
    /\ UNCHANGED <<daemonV, drvV, n_faults, drv_call>>

\* self._olat |= bit / &= ~bit & 0xFF: the attribute is read ...
ThLoad(t) ==
    /\ th[t].pc = "load"
    /\ th' = [th EXCEPT ![t].pc = "store", ![t].tmp = olat]
    /\ UNCHANGED <<daemonV, drvV, n_faults, drv_call>>

\* ... and the new value is stored
ThStore(t) ==
    /\ th[t].pc = "store"
    /\ olat' = set_relay_olat(th[t].tmp, th[t].ch, th[t].on)
    /\ th' = [th EXCEPT ![t].pc = "arg", ![t].tmp = 0]
    /\ UNCHANGED <<daemonV, hw_olat, n_faults, drv_call>>

\* write_byte_data(addr, OLAT, self._olat): the argument is read ...
ThArg(t) ==
    /\ th[t].pc = "arg"
    /\ th' = [th EXCEPT ![t].pc = "write", ![t].tmp = olat]
    /\ UNCHANGED <<daemonV, drvV, n_faults, drv_call>>

\* ... and transferred to the register; set_relay returns
ThWrite(t) ==
    /\ th[t].pc = "write"
    /\ hw_olat' = th[t].tmp
    /\ th' = [th EXCEPT ![t].pc = "done", ![t].tmp = 0]
    /\ UNCHANGED <<daemonV, olat, n_faults, drv_call>>

\* ------------------------------------------- loop thread: GPIO callback
\* The callback runs beside the bridge and timer threads.  Its broker publish
\* touches nothing those threads read, so the handler is cut in two: up to
\* and including the relay write, and from the publish to the return.

\* GPIOWatcher -> CommandGate.handle_gpio_event(event): the map lookup and
\* step 1, the direct relay write (not through gate())
GpioEvent(pins) ==
    /\ tasks["gpio_watch"] = "running"
    /\ gp.pc = "idle"
    /\ n_events < MaxEvents
    /\ n_events' = n_events + 1
    /\ \E pin \in pins, value \in {0, 1} :
         LET relay_ch == DI_RELAY_MAP(pin)
             ev == [IdleGpio EXCEPT !.pin = pin, !.value = value,
                                    !.ch = relay_ch,
                                    !.locked0 = is_locked_out(now, lockout_until),
                                    !.alone = \A t \in NonSafetyTasks :
                                                 tasks[t] # "running"]
         IN  IF relay_ch = 0
             THEN /\ gp' = [ev EXCEPT !.result = "returned"]
                  /\ UNCHANGED <<drvV, n_faults>>
             ELSE IF handle_gpio_event_write(ev.locked0) # "call"
             THEN /\ gp' = [ev EXCEPT !.pc = "publish"]
                  /\ UNCHANGED <<drvV, n_faults>>
             ELSE \E ok \in Outcomes :
                    LET nxt == IF ok THEN "publish" ELSE relay_try_except(ok)
                    IN  /\ DriverSetRelay(relay_ch, value = 1, ok)
                        /\ gp' = [ev EXCEPT
                                    !.calls = 1, !.call_ch = relay_ch,
                                    !.call_on = (value = 1), !.relay_ok = ok,
                                    !.pc = IF nxt = "raise" THEN "idle" ELSE nxt,
                                    !.result = IF nxt = "raise" THEN "raised"
                                               ELSE "none"]
    /\ UNCHANGED <<now, gateV, cfgV, unitV, timerV, restV, queue, br>>

\* step 2, _publish_override, and step 3: the lockout starts on a close
\* event; the handler returns
GpioFinish ==
    /\ gp.pc = "publish"
    /\ \E ok \in (IF gate_mqtt THEN Outcomes ELSE {TRUE}) :
         LET nxt == IF ok THEN "lock" ELSE publish_try_except(ok)
             until == lockout_update(gp.value = 1, now, lockout_until)
         IN  /\ n_faults' = IF ok THEN n_faults ELSE n_faults + 1
             /\ IF nxt = "raise"
                THEN /\ gp' = [gp EXCEPT !.pc = "idle", !.result = "raised",
                                         !.pubs = 1, !.pub_ok = ok]
                     /\ UNCHANGED gateV
                ELSE /\ gp' = [gp EXCEPT
                                 !.pc = "idle", !.result = "returned",
                                 !.pubs = IF gate_mqtt THEN 1 ELSE 0,
                                 !.payload =
                                     IF gate_mqtt
                                     THEN <<publish_override(gp.pin, gp.ch,
                                                             gp.value = 1)>>
                                     ELSE <<>>,
                                 !.pub_ok = ok]
                     /\ lockout_until' = until
                     /\ closeAt' = IF gp.value = 1 THEN now ELSE closeAt
    /\ UNCHANGED <<now, cfgV, unitV, drvV, timerV, restV, queue, br, n_events>>

\* ------------------------------------------- loop thread: REST handlers
\* POST /api/relay/{ch}; the clock may advance between is_locked_out() and
\* remaining_lockout()
\* A request whose key the dependency refuses: HTTPException(403), the
\* handler is not entered
Forbidden(endpoint, x_api_key) ==
    /\ resp' = [NoResponse EXCEPT !.kind = endpoint, !.status = 403,
                                  !.error = "Invalid API key",
                                  !.x_api_key = x_api_key]
    /\ UNCHANGED <<now, gateV, cfgV, unitV, drvV, timerV, queue, br, gp,
                   n_msgs, n_events, n_faults>>

SetRelayRoute(x_api_key) ==
    /\ tasks["rest_api"] = "running"
    /\ gp.pc = "idle"
    /\ n_msgs < MaxMsgs
    /\ IF check_key(api_key, x_api_key) = 403
       THEN Forbidden("relay", x_api_key)
       ELSE
       /\ \E rq \in Requests,
             t2 \in {now, IF now < MaxTime THEN now + 1 ELSE now} :
            LET locked == is_locked_out(now, lockout_until)
                r == set_relay_response(locked, rest_mqtt)
                out == set_relay_publish(locked, rest_mqtt, rq.ch, rq.value,
                                         rq.dur, rq.reason)
            IN  /\ now' = IF locked THEN t2 ELSE now
                /\ queue' = queue \o out
                /\ n_msgs' = n_msgs + Len(out)
                /\ resp' = [kind |-> "relay", status |-> r.status,
                            error |-> r.error,
                            remaining |-> IF locked
                                          THEN remaining_lockout(t2,
                                                                 lockout_until)
                                          ELSE 0,
                            published |-> out # <<>>, locked |-> locked,
                            x_api_key |-> x_api_key, rq |-> <<rq>>,
                            relay_state |-> NullState]
       /\ UNCHANGED <<gateV, cfgV, unitV, drvV, timerV, br, gp, n_events,
                      n_faults>>

\* a request that the key dependency admits
RestSetRelay == SetRelayRoute(api_key)

\* POST /api/emergency/clear
EmergencyClearRoute(x_api_key) ==
    /\ tasks["rest_api"] = "running"
    /\ gp.pc = "idle"
    /\ IF check_key(api_key, x_api_key) = 403
       THEN Forbidden("clear", x_api_key)
       ELSE
       /\ lockout_until' = clear_lockout
       /\ closeAt' = 0
       /\ resp' = [NoResponse EXCEPT
                     !.kind = "clear", !.status = 200,
                     !.locked = is_locked_out(now, lockout_until),
                     !.x_api_key = x_api_key]
       /\ UNCHANGED <<now, cfgV, unitV, drvV, timerV, queue, br, gp, n_msgs,
                      n_events, n_faults>>

\* a request that the key dependency admits
RestEmergencyClear == EmergencyClearRoute(api_key)

\* GET /api/sensors: the cache is read
SensorsRoute(x_api_key) ==
    /\ tasks["rest_api"] = "running"
    /\ gp.pc = "idle"
    /\ IF check_key(api_key, x_api_key) = 403
       THEN Forbidden("sensors", x_api_key)
       ELSE
       /\ resp' = [NoResponse EXCEPT !.kind = "sensors", !.status = 200,
                                     !.x_api_key = x_api_key]
       /\ UNCHANGED <<now, gateV, cfgV, unitV, drvV, timerV, queue, br, gp,
                      n_msgs, n_events, n_faults>>

\* GET /api/status: the register and the gate are read
StatusRoute(x_api_key) ==
    /\ tasks["rest_api"] = "running"
    /\ gp.pc = "idle"
    /\ IF check_key(api_key, x_api_key) = 403
       THEN Forbidden("status", x_api_key)
       ELSE
       /\ \E read_ok \in BOOLEAN :
            LET locked == is_locked_out(now, lockout_until)
            IN  resp' = [NoResponse EXCEPT
                           !.kind = "status",
                           !.status = get_status_code(locked),
                           !.locked = locked,
                           !.remaining = remaining_lockout(now, lockout_until),
                           !.relay_state =
                               get_status_relay_state(read_ok, hw_olat),
                           !.x_api_key = x_api_key]
       /\ UNCHANGED <<now, gateV, cfgV, unitV, drvV, timerV, queue, br, gp,
                      n_msgs, n_events, n_faults>>

\* the four endpoints, reached by requests with any X-API-Key header
ApiRelay == \E h \in Headers : SetRelayRoute(h)
ApiEmergencyClear == \E h \in Headers : EmergencyClearRoute(h)
ApiSensors == \E h \in Headers : SensorsRoute(h)
ApiStatus == \E h \in Headers : StatusRoute(h)

\* ------------------------------------ the broker
\* _on_connect subscribes agriha/{house_id}/relay/+/set: any client of the
\* broker (the REST API, the LLM agent) publishes a set message
BrokerPublish ==
    /\ n_msgs < MaxBridgeMsgs
    /\ \E rq \in Requests : queue' = Append(queue, rq)
    /\ n_msgs' = n_msgs + 1
    /\ UNCHANGED <<now, gateV, cfgV, unitV, drvV, timerV, resp, br, gp, n_events,
                   n_faults>>

\* ------------------------------------ bridge thread: decoding
\* an exception of the decoding, which _on_message's except clauses catch
Raises == -1

\* int(parts[-2]) of the topic's channel segment
topic_int(seg) ==
    CASE seg = "0" -> 0 [] seg = "1" -> 1 [] seg = "2" -> 2
      [] seg = "8" -> 8 [] seg = "9" -> 9 [] OTHER -> Raises

\* json.loads(msg.payload.decode()): the members "value" and "duration_sec"
\* of an object as JSON texts ("" = no such member)
json_loads(text) ==
    CASE text = "{\"value\": 1, \"duration_sec\": 5}" ->
           [kind |-> "object", value |-> "1", duration_sec |-> "5"]
      [] text = "{}" ->
           [kind |-> "object", value |-> "", duration_sec |-> ""]
      [] text = "{\"value\": 0}" ->
           [kind |-> "object", value |-> "0", duration_sec |-> ""]
      [] text = "{\"value\": \"off\"}" ->
           [kind |-> "object", value |-> "\"off\"", duration_sec |-> ""]
      [] text = "{\"value\": 0, \"duration_sec\": null}" ->
           [kind |-> "object", value |-> "0", duration_sec |-> "null"]
      [] text = "[0]" ->
           [kind |-> "array", value |-> "", duration_sec |-> ""]
      [] OTHER ->
           [kind |-> "JSONDecodeError", value |-> "", duration_sec |-> ""]

\* int(payload.get("value", 0)) and float(payload.get("duration_sec", 0)) of
\* a member's JSON text; a string that is no number and null raise
number(member) ==
    CASE member = "" -> 0 [] member = "0" -> 0 [] member = "1" -> 1
      [] member = "5" -> 5 [] OTHER -> Raises

\* a handler that takes what it cannot decode for "channel 1 off"
decode_lenient(msg) ==
    LET ch == topic_int(msg.topic_ch)
        p  == json_loads(msg.payload)
        ok == /\ ch >= 1 /\ ch <= 8 /\ p.kind = "object"
              /\ number(p.value) # Raises /\ number(p.duration_sec) # Raises
    IN  IF ok
        THEN [ok |-> TRUE, ch |-> ch, value |-> number(p.value),
              dur |-> number(p.duration_sec) > 0]
        ELSE [ok |-> TRUE, ch |-> 1, value |-> 0, dur |-> FALSE]

\* _on_message up to the log line: ch from the topic, value and
\* duration_sec from the payload; ok = nothing raised and 1 <= ch <= 8
decode(msg) ==
    LET ch == topic_int(msg.topic_ch)
        p  == json_loads(msg.payload)
    IN  IF ch = Raises \/ ~(1 <= ch /\ ch <= 8)
        THEN [ok |-> FALSE, ch |-> 0, value |-> 0, dur |-> FALSE]
        ELSE IF p.kind # "object"
        THEN [ok |-> FALSE, ch |-> 0, value |-> 0, dur |-> FALSE]
        ELSE IF number(p.value) = Raises \/ number(p.duration_sec) = Raises
        THEN [ok |-> FALSE, ch |-> 0, value |-> 0, dur |-> FALSE]
        ELSE [ok |-> TRUE, ch |-> ch, value |-> number(p.value),
              dur |-> number(p.duration_sec) > 0]

\* ------------------------------------ bridge thread: _on_message
\* The handler is cut at its accesses to what other threads write: the timer
\* table, the timer objects, the gate deadline and the relay driver.
\* publish_state() only reads the register and publishes, so it is taken
\* together with the relay command before it.

\* a handler that never installs an auto-off timer
after_set_relay_no_timer(value, dur, ok) == "idle"

\* where _on_message goes after set_relay(...) returned: publish_state()
\* (ok = get_state() did not raise; an error ends the handler), then the
\* auto-off timer if value and duration_sec > 0
after_set_relay(value, dur, ok) ==
    IF ~ok THEN "idle"
    ELSE IF value = 1 /\ dur THEN "install" ELSE "idle"

\* the bridge thread after a step: a handler that has ended keeps only how
\* its gate call ended
BridgeAt(b) ==
    IF b.pc = "idle"
    THEN [IdleBridge EXCEPT !.glocked = b.glocked, !.inv = b.inv,
                            !.ret = b.ret, !.dropped = b.dropped,
                            !.kept = b.kept]
    ELSE b

\* the handler from the decoded command m on:
\* with self._timers_lock: existing = self._timers.pop(ch, None)
BridgePop(m) ==
    /\ br' = [IdleBridge EXCEPT
                 !.ch = m.ch, !.value = m.value, !.dur = m.dur,
                 !.existing = timers[m.ch],
                 !.dropped = br.dropped, !.kept = br.kept,
                 !.pc = IF timers[m.ch] # NoTimer THEN "cancel" ELSE "set"]
    /\ timers' = [timers EXCEPT ![m.ch] = NoTimer]

\* a set message is delivered: topic and payload are parsed, then the timer
\* is taken out of the table
BridgeReceive ==
    /\ tasks["mqtt_loop"] = "running"
    /\ br.pc = "idle"
    /\ queue # <<>>
    /\ BridgePop(Head(queue))
    /\ queue' = Tail(queue)
    /\ UNCHANGED <<now, gateV, cfgV, unitV, drvV, timer, restV, gp, n_events,
                   n_faults>>

\* the table's entry for the channel a message names, if it names one
pending_for(msg) ==
    IF topic_int(msg.topic_ch) \in Channels
    THEN timers[topic_int(msg.topic_ch)] ELSE NoTimer

\* any client of the broker publishes on a relay/<segment>/set topic
BrokerPublishText ==
    /\ n_msgs < MaxBridgeMsgs
    /\ \E msg \in SetMessages : queue' = Append(queue, msg)
    /\ n_msgs' = n_msgs + 1
    /\ UNCHANGED <<now, gateV, cfgV, unitV, drvV, timerV, resp, br, gp, n_events,
                   n_faults>>

\* _on_message from the start: a message that does not decode is logged and
\* the handler returns; one that decodes goes on to the timer table
BridgeOnMessage ==
    /\ tasks["mqtt_loop"] = "running"
    /\ br.pc = "idle"
    /\ queue # <<>>
    /\ LET m == decode(Head(queue))
       IN  IF m.ok
           THEN BridgePop(m)
           ELSE /\ br' = [br EXCEPT !.dropped = @ + 1,
                                   !.kept = pending_for(Head(queue))]
                /\ UNCHANGED timers
    /\ queue' = Tail(queue)
    /\ UNCHANGED <<now, gateV, cfgV, unitV, drvV, timer, restV, gp, n_events,
                   n_faults>>

\* threading.Timer.cancel(): stops a timer that has not fired yet; a callback
\* that is already running is not stopped
timer_cancel(st) == IF st = "waiting" THEN "cancelled" ELSE st

\* existing.cancel(), outside the lock; existing stays bound until the
\* handler returns
BridgeCancel ==
    /\ br.pc = "cancel"
    /\ timer' = [timer EXCEPT ![br.existing].st = timer_cancel(@)]
    /\ br' = [br EXCEPT !.pc = "set"]
    /\ UNCHANGED <<now, gateV, cfgV, unitV, drvV, timers, restV, queue, gp, n_events,
                   n_faults>>

\* self._relay.set_relay(ch, bool(value)) -> _GatedRelay.set_relay ->
\* CommandGate.gate: the is_locked_out() check; a locked gate returns False
\* and the handler goes on to publish_state().
\* (A bridge holding the bare driver would write at once.)
BridgeSetRelay ==
    /\ br.pc = "set"
    /\ IF BridgeRelayIsGated
       THEN LET locked == is_locked_out(now, lockout_until)
            IN  IF gate(locked) = "drop"
                THEN \E ok \in Outcomes :
                       /\ br' = BridgeAt([br EXCEPT
                                   !.pc = after_set_relay(br.value, br.dur, ok),
                                   !.glocked = locked, !.ret = "False"])
                       /\ n_faults' = IF ok THEN n_faults ELSE n_faults + 1
                       /\ UNCHANGED drvV
                ELSE /\ br' = [br EXCEPT !.pc = "call", !.glocked = locked]
                     /\ UNCHANGED <<drvV, n_faults>>
       ELSE /\ DriverSetRelay(br.ch, br.value = 1, TRUE)
            /\ br' = BridgeAt([br EXCEPT
                                !.pc = after_set_relay(br.value, br.dur, TRUE)])
    /\ UNCHANGED <<now, gateV, cfgV, unitV, timerV, restV, queue, gp, n_events>>

\* CommandGate.gate: command_fn(*args, **kwargs); return True, then
\* publish_state().  An I2C error propagates through gate and _GatedRelay into
\* _on_message's except clause, which ends the handler; so does an error of
\* publish_state().
BridgeCall ==
    /\ br.pc = "call"
    /\ \E ok \in Outcomes, state_ok \in Outcomes :
         /\ ok \/ state_ok
         /\ olat' = set_relay_olat(olat, br.ch, br.value = 1)
         /\ hw_olat' = IF ok THEN olat' ELSE hw_olat
         /\ n_faults' = IF ok /\ state_ok THEN n_faults ELSE n_faults + 1
         /\ br' = BridgeAt(
                    IF ok
                    THEN [br EXCEPT
                            !.pc = after_set_relay(br.value, br.dur, state_ok),
                            !.inv = @ + 1, !.ret = "True"]
                    ELSE [br EXCEPT !.pc = "idle", !.inv = @ + 1,
                                    !.ret = "raised"])
    /\ UNCHANGED <<now, gateV, cfgV, unitV, timerV, restV, queue, gp, n_events>>

NewTimerId ==
    CHOOSE i \in TimerIds :
        /\ timer[i].st = "none"
        /\ \A j \in TimerIds : j < i => timer[j].st # "none"

\* timer = threading.Timer(duration_sec, _auto_off);
\* with self._timers_lock: self._timers[ch] = timer; timer.start()
BridgeInstall ==
    /\ br.pc = "install"
    /\ timer' = [timer EXCEPT ![NewTimerId] =
                    [NoTimerObject EXCEPT !.ch = br.ch, !.st = "waiting"]]
    /\ timers' = [timers EXCEPT ![br.ch] = NewTimerId]
    /\ br' = BridgeAt([br EXCEPT !.pc = "idle"])
    /\ UNCHANGED <<now, gateV, cfgV, unitV, drvV, restV, queue, gp, n_events, n_faults>>

\* ------------------------------------ timer threads: _auto_off
\* the interval has elapsed and the timer was not cancelled: _auto_off runs
\* self._relay.set_relay(channel, False) up to the gate's check
TimerFire(i) ==
    /\ timer[i].st = "waiting"
    /\ IF BridgeRelayIsGated
       THEN LET locked == is_locked_out(now, lockout_until)
            IN  /\ timer' = IF gate(locked) = "drop"
                            THEN [timer EXCEPT ![i].st = "running",
                                               ![i].pc = "finally",
                                               ![i].glocked = locked,
                                               ![i].ret = "False"]
                            ELSE [timer EXCEPT ![i].st = "running",
                                               ![i].pc = "call",
                                               ![i].glocked = locked]
                /\ UNCHANGED <<drvV, n_faults>>
       ELSE /\ DriverSetRelay(timer[i].ch, FALSE, TRUE)
            /\ timer' = [timer EXCEPT ![i].st = "running", ![i].pc = "finally"]
    /\ UNCHANGED <<now, gateV, cfgV, unitV, timers, restV, queue, br, gp, n_events>>

\* the gate's command_fn call, then publish_state(); an error of either is
\* caught by _auto_off's except
TimerCall(i) ==
    /\ timer[i].st = "running" /\ timer[i].pc = "call"
    /\ \E ok \in Outcomes :
         /\ DriverSetRelay(timer[i].ch, FALSE, ok)
         /\ timer' = [timer EXCEPT ![i].pc = "finally", ![i].inv = @ + 1,
                                   ![i].ret = IF ok THEN "True" ELSE "raised"]
    /\ UNCHANGED <<now, gateV, cfgV, unitV, timers, restV, queue, br, gp, n_events>>

\* finally: with self._timers_lock: self._timers.pop(channel, None)
TimerFinally(i) ==
    /\ timer[i].st = "running" /\ timer[i].pc = "finally"
    /\ timers' = [timers EXCEPT ![timer[i].ch] = NoTimer]
    /\ timer' = [timer EXCEPT ![i] =
                    [NoTimerObject EXCEPT !.st = "finished"]]
    /\ UNCHANGED <<now, gateV, cfgV, unitV, drvV, restV, queue, br, gp, n_events,
                   n_faults>>

\* ------------------------------------------- the watcher taken alone
watcherV == <<now, gateV, gate_mqtt, api_key, ws, miscV, rest_mqtt, tasks, unitV,
              drvV, timerV, restV, queue, br, gp, n_events, n_faults>>

\* the kernel reports an edge on the request's descriptor
KernelEdge ==
    /\ wt.edges < MaxEdges
    /\ \E raw \in RawEvents :
         wt' = [wt EXCEPT !.kernel = Append(@, raw), !.edges = @ + 1]
    /\ UNCHANGED watcherV

\* the loop calls _on_readable: events = self.read_events()
OnReadable ==
    /\ wt.reader
    /\ wt.events = <<>>
    /\ wt.kernel # <<>>
    /\ wt' = [wt EXCEPT !.events = read_events(wt.kernel),
                        !.reported = @ \o wt.kernel,
                        !.kernel = <<>>,
                        !.reads = @ + 1]
    /\ UNCHANGED watcherV

\* one turn of for event in events: the callback returns or raises
WatcherCallback ==
    /\ wt.events # <<>>
    /\ \E ok \in BOOLEAN :
         LET a == after_callback(wt.events, ok)
         IN  wt' = [wt EXCEPT
                      !.calls = Append(@, [event |-> Head(wt.events),
                                           ok |-> ok, read |-> wt.reads]),
                      !.events = a.events,
                      !.reader = a.reader]
    /\ UNCHANGED watcherV

\* watch() is cancelled between two callbacks of the loop: remove_reader
WatcherCancelled ==
    /\ wt.reader
    /\ wt.events = <<>>
    /\ wt' = [wt EXCEPT !.reader = FALSE]
    /\ UNCHANGED watcherV

NextWatcher ==
    \/ KernelEdge
    \/ OnReadable
    \/ WatcherCallback
    \/ WatcherCancelled

SpecWatcher == Init /\ [][NextWatcher]_vars

\* -------------------------------------- the weather reader taken alone
sensorV == <<now, gateV, gate_mqtt, api_key, wt, miscV, rest_mqtt, tasks, unitV,
             drvV, timerV, restV, queue, br, gp, n_events, n_faults>>

\* the station sends a frame
FrameSent ==
    /\ ws.pc = "idle"
    /\ \E f \in Frames : ws' = [ws EXCEPT !.pc = "new", !.data = f, !.sent = f]
    /\ UNCHANGED sensorV

\* one byte of the frame, the checksum byte included, changes on the line
FrameChange ==
    /\ ws.pc = "new"
    /\ \E i \in 1..FRAME_LEN_BASE, d \in ByteDeltas :
         ws' = [ws EXCEPT !.pc = "changed", !.changed = i,
                          !.data[i] = (@ + d) % 256]
    /\ UNCHANGED sensorV

\* the last byte is lost
FrameTruncate ==
    /\ ws.pc = "new"
    /\ ws' = [ws EXCEPT !.pc = "changed",
                        !.data = SubSeq(@, 1, FRAME_LEN_BASE - 1)]
    /\ UNCHANGED sensorV

\* the station sends the extended frame
FrameExtend ==
    /\ ws.pc = "new"
    /\ ws' = [ws EXCEPT !.pc = "changed", !.data = @ \o Extension]
    /\ UNCHANGED sensorV

VerifyChecksum ==
    /\ ws.pc \in {"new", "changed"}
    /\ ws' = [ws EXCEPT !.pc = "verified", !.valid = verify_checksum(ws.data)]
    /\ UNCHANGED sensorV

ParseFrame ==
    /\ ws.pc = "verified"
    /\ ws' = [ws EXCEPT !.pc = "parsed", !.parsed = parse_frame(ws.data)]
    /\ UNCHANGED sensorV

\* SensorLoop._read_misol with the port open: read_frame, parse_frame,
\* publish to agriha/farm/weather/misol; pub_ok = publish did not raise
ReadMisol ==
    /\ ws.pc = "parsed"
    /\ \E prefix \in Prefixes, pub_ok \in BOOLEAN :
         LET stream == prefix \o ws.data
             frame == read_frame(stream)
         IN  ws' = [ws EXCEPT
                      !.pc = "read", !.stream = stream, !.frame = frame,
                      !.parse_calls = IF frame = NoFrame THEN 0 ELSE 1,
                      !.published = IF frame # NoFrame /\ pub_ok
                                    THEN <<parse_frame(frame)>>
                                    ELSE <<>>]
    /\ UNCHANGED sensorV

NextSensor ==
    \/ FrameSent
    \/ FrameChange
    \/ FrameTruncate
    \/ FrameExtend
    \/ VerifyChecksum
    \/ ParseFrame
    \/ ReadMisol

SpecSensor == Init /\ [][NextSensor]_vars

\* ------------------------------------------------------------ task ends
\* a run() that gives up when one of its tasks ends: every task is cancelled
run_cancels_all(t) == AllTasks \ {t}

\* UnipiDaemon.run awaits stop_event only: nothing is done when a task ends,
\* its exception stays in the task until gather() at shutdown
run_on_task_end(t) == {}

\* how a task that ended shows: RestApi.run catches Exception and returns
task_result(t, how) == IF t = "rest_api" THEN "done" ELSE how

\* a non-safety task returns or raises while the loop thread is free; REST's
\* finally drops its broker client
TaskEnds(t) ==
    /\ tasks["run"] = "running"
    /\ tasks[t] = "running"
    /\ gp.pc = "idle"
    /\ \E how \in {"done", "failed"} :
         tasks' = [u \in DOMAIN tasks |->
                     IF u = t THEN task_result(t, how)
                     ELSE IF u \in run_on_task_end(t) THEN "cancelled"
                     ELSE tasks[u]]
    /\ rest_mqtt' = IF t = "rest_api" THEN FALSE ELSE rest_mqtt
    /\ UNCHANGED <<now, gateV, fixedV, unitV, drvV, timerV, restV,
                   queue, br, gp, n_events, n_faults>>

\* SIGTERM/SIGINT: run() cancels every task still running and returns
Stop ==
    /\ tasks["run"] = "running"
    /\ gp.pc = "idle"
    /\ tasks' = [u \in DOMAIN tasks |->
                   IF u = "run" THEN "stopped"
                   ELSE IF tasks[u] = "running" THEN "cancelled"
                   ELSE tasks[u]]
    /\ rest_mqtt' = (rest_mqtt /\ tasks["rest_api"] # "running")
    /\ UNCHANGED <<now, gateV, fixedV, unitV, drvV, timerV, restV,
                   queue, br, gp, n_events, n_faults>>

\* ------------------------------- the bridge with its lock, disconnect()
\* The table accesses of _on_message, _auto_off and disconnect are cut into
\* the acquisition of _timers_lock and the body with the release.
lockV == <<now, gateV, gate_mqtt, api_key, wt, ws, sd, sc, rf, rest_mqtt,
           tasks,
           unitV, drvV, restV, gp, n_events, n_faults>>

\* a disconnect() that calls loop_stop() inside the with block
disconnect_stops_under_lock == FALSE

\* disconnect: the with block ends before self._client.loop_stop()
disconnect_releases_first == TRUE

\* _on_message: decoded, at  with self._timers_lock:  (line 148)
HandlerAcquirePop ==
    /\ lk.dc # "done"
    /\ br.pc = "idle"
    /\ queue # <<>>
    /\ lk.holder = "none"
    /\ LET m == Head(queue)
       IN  br' = [IdleBridge EXCEPT !.ch = m.ch, !.value = m.value,
                                    !.dur = m.dur, !.pc = "pop"]
    /\ lk' = [lk EXCEPT !.holder = "handler"]
    /\ queue' = Tail(queue)
    /\ UNCHANGED <<lockV, timerV>>

\* existing = self._timers.pop(ch, None), and the lock is released
HandlerPop ==
    /\ br.pc = "pop"
    /\ br' = [br EXCEPT !.existing = timers[br.ch],
                        !.pc = IF timers[br.ch] # NoTimer THEN "cancel"
                               ELSE "set"]
    /\ timers' = [timers EXCEPT ![br.ch] = NoTimer]
    /\ lk' = [lk EXCEPT !.holder = "none"]
    /\ UNCHANGED <<lockV, timer, queue>>

\* timer = threading.Timer(...), at  with self._timers_lock:  (line 173)
HandlerAcquireStore ==
    /\ br.pc = "install"
    /\ lk.holder = "none"
    /\ br' = [br EXCEPT !.pc = "store"]
    /\ lk' = [lk EXCEPT !.holder = "handler"]
    /\ UNCHANGED <<lockV, timerV, queue>>

\* self._timers[ch] = timer, the lock is released, timer.start()
HandlerStore ==
    /\ br.pc = "store"
    /\ timer' = [timer EXCEPT ![NewTimerId] =
                    [NoTimerObject EXCEPT !.ch = br.ch, !.st = "waiting"]]
    /\ timers' = [timers EXCEPT ![br.ch] = NewTimerId]
    /\ br' = BridgeAt([br EXCEPT !.pc = "idle"])
    /\ lk' = [lk EXCEPT !.holder = "none"]
    /\ UNCHANGED <<lockV, queue>>

\* _auto_off's finally, at  with self._timers_lock:  (line 168)
TimerAcquire(i) ==
    /\ timer[i].st = "running" /\ timer[i].pc = "finally"
    /\ lk.holder = "none"
    /\ timer' = [timer EXCEPT ![i].pc = "pop"]
    /\ lk' = [lk EXCEPT !.holder = "timer", !.id = i]
    /\ UNCHANGED <<lockV, timers, br, queue>>

\* self._timers.pop(channel, None), and the lock is released
TimerPop(i) ==
    /\ timer[i].st = "running" /\ timer[i].pc = "pop"
    /\ timers' = [timers EXCEPT ![timer[i].ch] = NoTimer]
    /\ timer' = [timer EXCEPT ![i] =
                    [NoTimerObject EXCEPT !.st = "finished"]]
    /\ lk' = [lk EXCEPT !.holder = "none", !.id = NoTimer]
    /\ UNCHANGED <<lockV, br, queue>>

\* mqtt_loop's finally: bridge.disconnect(), at  with self._timers_lock:
DisconnectAcquire ==
    /\ lk.dc = "idle"
    /\ lk.holder = "none"
    /\ lk' = [lk EXCEPT !.holder = "disconnect", !.dc = "locked"]
    /\ UNCHANGED <<lockV, timerV, br, queue>>

\* for timer in self._timers.values(): timer.cancel();
\* self._timers.clear(), and the lock is released
DisconnectClear ==
    /\ lk.dc = "locked"
    /\ timer' = [i \in TimerIds |->
                   IF \E c \in Channels : timers[c] = i
                   THEN [timer[i] EXCEPT !.st = timer_cancel(@)]
                   ELSE timer[i]]
    /\ timers' = [c \in Channels |-> NoTimer]
    /\ lk' = [lk EXCEPT !.dc = "loop_stop",
                        !.holder = IF disconnect_releases_first
                                   THEN "none" ELSE "disconnect"]
    /\ UNCHANGED <<lockV, br, queue>>

\* self._client.loop_stop() joins the broker thread, which ends when the
\* callback it is in has returned; self._client.disconnect(); return
DisconnectLoopStop ==
    /\ lk.dc = "loop_stop"
    /\ br.pc = "idle"
    /\ lk' = [lk EXCEPT !.dc = "done", !.holder = "none"]
    /\ UNCHANGED <<lockV, timerV, br, queue>>

\* run(): relay.close(), after gather has returned mqtt_loop's end
SupervisorRelayClose ==
    /\ lk.dc = "done"
    /\ ~lk.closed
    /\ lk' = [lk EXCEPT !.closed = TRUE]
    /\ UNCHANGED <<lockV, timerV, br, queue>>

\* the steps of the broker thread inside _on_message
HandlerStep ==
    \/ HandlerPop
    \/ BridgeCancel
    \/ BridgeSetRelay
    \/ BridgeCall
    \/ HandlerAcquireStore
    \/ HandlerStore

\* the step with which the holder of _timers_lock releases it
HolderStep ==
    \/ lk.holder = "handler" /\ (HandlerPop \/ HandlerStore)
    \/ lk.holder = "timer" /\ TimerPop(lk.id)
    \/ lk.holder = "disconnect" /\ (DisconnectClear \/ DisconnectLoopStop)

\* ------------------------------------------- read_frame, read by read
readerV == <<now, gateV, gate_mqtt, api_key, wt, ws, sd, sc, lk, rest_mqtt,
             tasks, unitV, drvV, timerV, restV, queue, br, gp, n_events,
             n_faults>>

Min(a, b) == IF a < b THEN a ELSE b

\* a sync loop without the deadline test
deadline_never(clock) == FALSE

\* time.monotonic() > deadline, the clock counting the reads of the loop
deadline_passed(clock) == clock > SyncDeadline

\* a read of the sync loop has taken its time
tick(clock) == IF clock > SyncDeadline THEN clock ELSE clock + 1

\* read_frame(ser, sync_timeout) is called: deadline = now + sync_timeout
ReadFrameCalled ==
    /\ rf.pc = "idle"
    /\ \E stream \in PortStreams :
         rf' = [NotReading EXCEPT !.pc = "sync", !.input = stream]
    /\ UNCHANGED readerV

\* one turn of the sync loop: the deadline test, then ser.read(1), which
\* returns a byte or, after the port's timeout, nothing
SyncRead ==
    /\ rf.pc = "sync"
    /\ IF deadline_passed(rf.clock)
       THEN rf' = [rf EXCEPT !.pc = "returned", !.result = NoFrame]
       ELSE \E got \in (IF rf.input # <<>> THEN BOOLEAN ELSE {FALSE}) :
              IF ~got
              THEN rf' = [rf EXCEPT !.clock = tick(@)]
              ELSE rf' = [rf EXCEPT
                            !.clock = tick(@),
                            !.input = Tail(@),
                            !.consumed = Append(@, Head(rf.input)),
                            !.buf = IF Head(rf.input) = SYNC_BYTE
                                    THEN <<SYNC_BYTE>> ELSE <<>>,
                            !.pc = IF Head(rf.input) = SYNC_BYTE
                                   THEN "rest" ELSE "sync"]
    /\ UNCHANGED readerV

\* one turn of read_exact(ser, 16): ser.read(n - len(buf)) returns some of
\* the bytes asked for, or nothing after the timeout, which ends the call
RestRead ==
    /\ rf.pc = "rest"
    /\ \E n \in 0..Min(FRAME_LEN_BASE - Len(rf.buf), Len(rf.input)) :
         IF n = 0
         THEN rf' = [rf EXCEPT !.pc = "returned", !.result = NoFrame]
         ELSE rf' = [rf EXCEPT
                       !.buf = @ \o SubSeq(rf.input, 1, n),
                       !.consumed = @ \o SubSeq(rf.input, 1, n),
                       !.input = SubSeq(@, n + 1, Len(@)),
                       !.pc = IF Len(rf.buf) + n = FRAME_LEN_BASE
                              THEN "checksum" ELSE "rest"]
    /\ UNCHANGED readerV

\* if not verify_checksum(frame): return None
ChecksumTest ==
    /\ rf.pc = "checksum"
    /\ rf' = IF verify_checksum(rf.buf)
             THEN [rf EXCEPT !.pc = "ext"]
             ELSE [rf EXCEPT !.pc = "returned", !.result = NoFrame]
    /\ UNCHANGED readerV

\* ext = ser.read(4) with a timeout of 0.1 s: the frame with the extension
\* if four bytes came, the 17 bytes otherwise
ExtRead ==
    /\ rf.pc = "ext"
    /\ \E n \in 0..Min(FRAME_LEN_EXT - FRAME_LEN_BASE, Len(rf.input)) :
         rf' = [rf EXCEPT
                  !.pc = "returned",
                  !.consumed = @ \o SubSeq(rf.input, 1, n),
                  !.input = SubSeq(@, n + 1, Len(@)),
                  !.result = IF n = FRAME_LEN_EXT - FRAME_LEN_BASE
                             THEN rf.buf \o SubSeq(rf.input, 1, n)
                             ELSE rf.buf]
    /\ UNCHANGED readerV

\* the reads and tests of a call in progress
ReaderStep ==
    \/ SyncRead
    \/ RestRead
    \/ ChecksumTest
    \/ ExtRead

\* --------------------------------------------------------- SensorCache
cacheV == <<now, gateV, gate_mqtt, api_key, wt, ws, sd, lk, rf, rest_mqtt,
            tasks,
            unitV, drvV, timerV, restV, queue, br, gp, n_events, n_faults>>

\* time.time(): the UNIX time, positive
time == now + 1

\* what a dict holds: for each topic the reading of its object, 0 if the
\* topic is not a key
Contents(c, d) ==
    [k \in Topics |->
        IF c.dicts[d][k] = NoLeaf THEN 0 ELSE c.leaves[c.dicts[d][k]]]

\* the number of keys of a dict
KeyCount(c, d) == Cardinality({k \in Topics : c.dicts[d][k] # NoLeaf})

\* copy.copy(self._data): a new dict holding the same objects
copy_copy(c) ==
    [c EXCEPT !.dicts[CopyDict] = c.dicts[DataDict], !.returned = CopyDict]

\* the objects deepcopy creates, in the order of the topics it meets
RECURSIVE deepcopy_from(_, _)
deepcopy_from(c, todo) ==
    IF todo = {} THEN c
    ELSE LET k == CHOOSE x \in todo : TRUE
             src == c.dicts[DataDict][k]
         IN  IF src = NoLeaf
             THEN deepcopy_from([c EXCEPT !.dicts[CopyDict][k] = NoLeaf],
                                todo \ {k})
             ELSE deepcopy_from(
                    [c EXCEPT !.dicts[CopyDict][k] = c.used + 1,
                              !.leaves[c.used + 1] = c.leaves[src],
                              !.used = c.used + 1],
                    todo \ {k})

\* copy.deepcopy(self._data): a new dict holding new objects
copy_deepcopy(c) == [deepcopy_from(c, Topics) EXCEPT !.returned = CopyDict]

\* SensorCache.update(key, value) from the broker client's thread:
\* value is the object json.loads made of the payload
CacheUpdate(k, v) ==
    /\ sc.used < MaxLeaves
    /\ sc' = [sc EXCEPT !.leaves[sc.used + 1] = v,
                        !.used = sc.used + 1,
                        !.dicts[DataDict][k] = sc.used + 1,
                        !.updated_at = time,
                        !.op = "update"]
    /\ UNCHANGED cacheV

\* get_sensors up to data = self._sensor_cache.get_all()
GetSensorsGetAll ==
    /\ sc.pc = "idle"
    /\ sc.used + KeyCount(sc, DataDict) <= MaxLeaves
    /\ sc' = [copy_deepcopy(sc) EXCEPT !.pc = "have_data", !.op = "get_all"]
    /\ UNCHANGED cacheV

\* get_sensors from get_updated_at() to the response
GetSensorsRespond ==
    /\ sc.pc = "have_data"
    /\ sc' = [sc EXCEPT !.pc = "idle", !.op = "respond",
                        !.response = [sensors    |-> Contents(sc, sc.returned),
                                      updated_at |-> sc.updated_at,
                                      age_null   |-> ~(sc.updated_at > 0),
                                      sent       |-> TRUE]]
    /\ UNCHANGED cacheV

\* whoever holds the returned mapping changes the object under a key, or
\* deletes the key
CallerMutates(k, v) ==
    /\ sc.pc = "idle"
    /\ sc.returned # NoDict
    /\ sc.dicts[sc.returned][k] # NoLeaf
    /\ \/ sc' = [sc EXCEPT !.leaves[sc.dicts[sc.returned][k]] = v,
                            !.op = "mutate"]
       \/ sc' = [sc EXCEPT !.dicts[sc.returned][k] = NoLeaf,
                            !.op = "mutate"]
    /\ UNCHANGED cacheV

\* ------------------------------------------------------------- shutdown
shutdownV == <<now, gateV, gate_mqtt, api_key, wt, ws, sc, lk, rf, unitV, drvV, timerV,
               restV, queue, br, gp, n_events, n_faults>>

Finished == {"done", "failed", "cancelled"}

\* a gather() without return_exceptions: the first exception leaves run()
gather_raises(failed) == IF failed = {} THEN "returned" ELSE "raised"

\* asyncio.gather(*tasks, return_exceptions=True): exceptions are results
gather(failed) == "returned"

\* the signal handler sets stop_event; run() clears _running and calls
\* cancel() on every task
Signal ==
    /\ sd.pc = "waiting"
    /\ tasks["run"] = "running"
    /\ gp.pc = "idle"
    /\ sd' = [sd EXCEPT !.pc = "gather"]
    /\ tasks' = [u \in DOMAIN tasks |->
                   IF u = "run" THEN "stopping"
                   ELSE IF tasks[u] = "running" THEN "cancelling"
                   ELSE tasks[u]]
    /\ UNCHANGED <<shutdownV, rest_mqtt>>

\* a cancelled task ends: CancelledError leaves it, or its cleanup raises
TaskCancelled(t) ==
    /\ tasks[t] = "cancelling"
    /\ \E how \in {"cancelled", "failed"} :
         tasks' = [tasks EXCEPT ![t] = how]
    /\ rest_mqtt' = IF t = "rest_api" THEN FALSE ELSE rest_mqtt
    /\ UNCHANGED <<shutdownV, sd, sc>>

\* gather() returns when every task has ended; exceptions are logged
Gather ==
    /\ sd.pc = "gather"
    /\ \A t \in AllTasks : tasks[t] \in Finished
    /\ LET failed == {t \in AllTasks : tasks[t] = "failed"}
       IN  IF gather(failed) = "raised"
           THEN sd' = [sd EXCEPT !.pc = "raised"]
           ELSE sd' = [sd EXCEPT !.pc = "close_gate", !.logged = failed]
    /\ UNCHANGED <<shutdownV, rest_mqtt, tasks>>

\* if gate_mqtt_client is not None: loop_stop(); disconnect()
CloseGateClient ==
    /\ sd.pc = "close_gate"
    /\ sd' = [sd EXCEPT !.pc = "close_sensor",
                        !.closes = IF gate_mqtt
                                   THEN Append(@, "gate_mqtt_client") ELSE @]
    /\ UNCHANGED <<shutdownV, rest_mqtt, tasks>>

\* if sensor_mqtt_client is not None: loop_stop(); disconnect()
CloseSensorClient ==
    /\ sd.pc = "close_sensor"
    /\ sd' = [sd EXCEPT !.pc = "close_relay",
                        !.closes = IF sd.sensor_mqtt
                                   THEN Append(@, "sensor_mqtt_client")
                                   ELSE @]
    /\ UNCHANGED <<shutdownV, rest_mqtt, tasks>>

\* relay.close(); run() returns
RelayClose ==
    /\ sd.pc = "close_relay"
    /\ sd' = [sd EXCEPT !.pc = "stopped", !.closes = Append(@, "relay")]
    /\ tasks' = [tasks EXCEPT !["run"] = "stopped"]
    /\ UNCHANGED <<shutdownV, rest_mqtt>>

\* what run() and the cancelled tasks do once the signal has come
AfterSignal ==
    \/ \E t \in AllTasks : TaskCancelled(t)
    \/ Gather
    \/ CloseGateClient
    \/ CloseSensorClient
    \/ RelayClose

\* ------------------------------------------------------------------- Next
\* the loop thread alone: GPIO callback and REST handlers
NextEmergency ==
    \/ Tick
    \/ GpioEvent(InputPins)
    \/ GpioFinish
    \/ RestSetRelay
    \/ RestEmergencyClear

SpecEmergency == Init /\ [][NextEmergency]_vars

\* the assembled daemon: loop thread, bridge thread and timer threads
Next ==
    \/ Tick
    \/ GpioEvent(DaemonPins)
    \/ GpioFinish
    \/ RestSetRelay
    \/ RestEmergencyClear
    \/ BridgeReceive
    \/ BridgeCancel
    \/ BridgeSetRelay
    \/ BridgeCall
    \/ BridgeInstall
    \/ \E i \in TimerIds : TimerFire(i)
    \/ \E i \in TimerIds : TimerCall(i)
    \/ \E i \in TimerIds : TimerFinally(i)

Spec == Init /\ [][Next]_vars

\* the bridge taken alone: its broker thread and its timer threads, with the
\* gate never locked
NextBridge ==
    \/ BrokerPublish
    \/ BridgeReceive
    \/ BridgeCancel
    \/ BridgeSetRelay
    \/ BridgeCall
    \/ BridgeInstall
    \/ \E i \in TimerIds : TimerFire(i)
    \/ \E i \in TimerIds : TimerCall(i)
    \/ \E i \in TimerIds : TimerFinally(i)

SpecBridge == Init /\ [][NextBridge]_vars

\* one call of read_frame. The port has a timeout (2 s in sensor_loop), so
\* every read returns and the call is never left waiting in a read.
NextReader ==
    \/ ReadFrameCalled
    \/ ReaderStep

SpecReader == Init /\ [][NextReader]_vars /\ WF_vars(ReaderStep)

\* the bridge with a gate that is open or in lockout throughout
InitLock ==
    \E until \in {0, 1 + lockout_seconds} :
        /\ lockout_until = until
        /\ now = 1 /\ closeAt = 0
        /\ olat = 0 /\ hw_olat = 0
        /\ gate_mqtt = TRUE /\ rest_mqtt = TRUE
        /\ queue = <<>>
        /\ timers = [c \in Channels |-> NoTimer]
        /\ timer = [i \in TimerIds |-> NoTimerObject]
        /\ br = IdleBridge
        /\ gp = IdleGpio
        /\ resp = NoResponse
        /\ n_msgs = 0 /\ n_events = 0 /\ n_faults = 0
        /\ api_key = ""
        /\ drv_call = NoCall
        /\ th = [t \in Threads |-> IdleThread]
        /\ tasks = [t \in AllTasks \cup {"run"} |-> "running"]
        /\ wt = IdleWatcher /\ ws = IdleSensor
        /\ sd = WaitingForSignal(TRUE) /\ sc = EmptyCache /\ lk = Unlocked
        /\ rf = NotReading

\* the bridge's threads with the lock, and the thread calling disconnect()
NextLock ==
    \/ BrokerPublish
    \/ HandlerAcquirePop
    \/ HandlerPop
    \/ BridgeCancel
    \/ BridgeSetRelay
    \/ BridgeCall
    \/ HandlerAcquireStore
    \/ HandlerStore
    \/ \E i \in TimerIds : TimerFire(i)
    \/ \E i \in TimerIds : TimerCall(i)
    \/ \E i \in TimerIds : TimerAcquire(i)
    \/ \E i \in TimerIds : TimerPop(i)
    \/ DisconnectAcquire
    \/ DisconnectClear
    \/ DisconnectLoopStop
    \/ SupervisorRelayClose

SpecLock == InitLock /\ [][NextLock]_vars

\* the bridge taken alone, fed with set messages as they arrive
NextDecode ==
    \/ BrokerPublishText
    \/ BridgeOnMessage
    \/ BridgeCancel
    \/ BridgeSetRelay
    \/ BridgeCall
    \/ BridgeInstall
    \/ \E i \in TimerIds : TimerFire(i)
    \/ \E i \in TimerIds : TimerCall(i)
    \/ \E i \in TimerIds : TimerFinally(i)

SpecDecode == Init /\ [][NextDecode]_vars

\* the tasks of run(): the loop thread beside tasks that end
NextTasks ==
    \/ Tick
    \/ GpioEvent(DaemonPins)
    \/ GpioFinish
    \/ RestEmergencyClear
    \/ \E t \in NonSafetyTasks : TaskEnds(t)
    \/ Stop

SpecTasks == Init /\ [][NextTasks]_vars

\* run() before and after the signal. The loop runs every task that was
\* cancelled and then run() itself, so what follows the signal is not put
\* off for ever.
NextShutdown ==
    \/ \E t \in NonSafetyTasks : TaskEnds(t)
    \/ Signal
    \/ AfterSignal

SpecShutdown == InitShutdown /\ [][NextShutdown]_vars /\ WF_vars(AfterSignal)

\* the sensor cache between the broker client's thread and the event loop
NextCache ==
    \/ Tick
    \/ \E k \in Topics, v \in Readings : CacheUpdate(k, v)
    \/ GetSensorsGetAll
    \/ GetSensorsRespond
    \/ \E k \in Topics, v \in Readings : CallerMutates(k, v)

SpecCache == Init /\ [][NextCache]_vars

\* the REST API with its key dependency, beside the GPIO callback
NextRest ==
    \/ Tick
    \/ GpioEvent(DaemonPins)
    \/ GpioFinish
    \/ ApiRelay
    \/ ApiEmergencyClear
    \/ ApiSensors
    \/ ApiStatus

SpecRest == InitRest /\ [][NextRest]_vars

\* the relay driver taken alone, called by one caller
NextDriver ==
    \/ DrvSetRelay
    \/ DrvSetAll
    \/ DrvAllOff
    \/ DrvGetRelay

SpecDriver == Init /\ [][NextDriver]_vars

\* the relay driver called from the three threads of the daemon at once
NextDriverThreads ==
    \E t \in Threads :
        \/ ThEnter(t)
        \/ ThLoad(t)
        \/ ThStore(t)
        \/ ThArg(t)
        \/ ThWrite(t)

SpecDriverThreads == Init /\ [][NextDriverThreads]_vars

\* ===================================================== the command gate
\* how one call of gate() ended, as the spec words it
GateReturnedAsSpecified(glocked, inv, ret) ==
    /\ inv <= 1
    /\ ret # "none" =>
         IF glocked THEN inv = 0 /\ ret = "False"
         ELSE inv = 1 /\ ret = "True"

\* how one call of gate() ended, as the code has it: an error of command_fn
\* leaves gate() as an exception
GateReturned(glocked, inv, ret) ==
    /\ inv <= 1
    /\ ret # "none" =>
         IF glocked THEN inv = 0 /\ ret = "False"
         ELSE inv = 1 /\ ret \in {"True", "raised"}

\* C1 as stated: a gate() call that found the gate locked never invokes
\* command_fn and returns False; one that found it open invokes command_fn
\* exactly once and returns True; command_fn is never invoked twice.
C1_GateReturnsTrueWhenOpen ==
    /\ GateReturnedAsSpecified(br.glocked, br.inv, br.ret)
    /\ \A i \in TimerIds :
         GateReturnedAsSpecified(timer[i].glocked, timer[i].inv, timer[i].ret)

\* C1 amended: a gate() call that found the gate locked never invokes
\* command_fn and returns False; one that found it open invokes command_fn
\* exactly once and returns True if command_fn returned, and leaves with
\* command_fn's exception if it raised; command_fn is never invoked twice.
C1_GateContract ==
    /\ GateReturned(br.glocked, br.inv, br.ret)
    /\ \A i \in TimerIds :
         GateReturned(timer[i].glocked, timer[i].inv, timer[i].ret)

\* the bridge's gate call found the gate open and wrote, while an auto-off
\* callback's gate call found it locked and was dropped
C1_Witness ==
    /\ ~br.glocked /\ br.inv = 1 /\ br.ret = "True"
    /\ \E i \in TimerIds :
         timer[i].glocked /\ timer[i].inv = 0 /\ timer[i].ret = "False"

\* C2 as stated: while the gate is locked no commanded write (the bridge's
\* or an auto-off timer's command_fn) reaches the relay driver, on any
\* interleaving of the GPIO handler with the bridge and timer threads.
C2_NoCommandedWriteWhileLocked ==
    [][((br.pc = "call" /\ br'.pc # "call")
        \/ \E i \in TimerIds : timer[i].pc = "call" /\ timer'[i].pc # "call")
       => ~is_locked_out(now, lockout_until)]_vars

\* C3: every step that changes the relay driver (the shadow or the register)
\* is (a) handle_gpio_event's write for a mapped emergency event, or (b) the
\* command_fn call of a bridge or auto-off gate() call whose check found the
\* gate not locked; the REST handlers never write.
C3_TwoWritePaths ==
    [][(olat' # olat \/ hw_olat' # hw_olat) =>
         \/ gp.pc = "idle" /\ gp'.calls = 1 /\ n_events' = n_events + 1
         \/ br.pc = "call" /\ ~br.glocked /\ br'.inv = 1
         \/ \E i \in TimerIds :
              timer[i].pc = "call" /\ ~timer[i].glocked /\ timer'[i].inv = 1
      ]_vars

\* the register holds a relay switched on by a gated bridge command after an
\* emergency event wrote the driver directly
C3_Witness ==
    /\ gp.calls = 1 /\ gp.result = "returned"
    /\ br.ret = "True" /\ ~br.glocked
    /\ hw_olat # 0

\* ===================================================== the emergency path
\* C4: after a close event set the deadline at time closeAt, and until
\* closeAt + lockout_seconds, is_locked_out() is true and remaining_lockout()
\* lies in (0, lockout_seconds], unless clear_lockout was called; whether the
\* relay write or the broker publish of the event failed does not matter.
C4_LockedForLockoutSeconds ==
    (closeAt > 0 /\ now < closeAt + lockout_seconds) =>
        /\ is_locked_out(now, lockout_until)
        /\ remaining_lockout(now, lockout_until) > 0
        /\ remaining_lockout(now, lockout_until) <= lockout_seconds

\* a close event whose relay write failed, one second later: still locked
C4_Witness ==
    /\ gp.result = "returned" /\ gp.value = 1 /\ ~gp.relay_ok
    /\ closeAt > 0 /\ now = closeAt + 1
    /\ is_locked_out(now, lockout_until)
    /\ remaining_lockout(now, lockout_until) = lockout_seconds - 1

\* C5: for an event on a mapped pin p (7..14) handle_gpio_event has called the
\* driver's set_relay exactly once, with channel p - 6 and on = (value = 1),
\* whether or not the gate was locked when the event arrived; right after the
\* call the shadow has that channel's bit in the commanded state.
C5_EmergencyWriteBypassesGate ==
    (gp.pin >= 7 /\ gp.pin <= 14) =>
        /\ gp.calls = 1
        /\ gp.call_ch = gp.pin - 6
        /\ gp.call_on = (gp.value = 1)
        /\ gp.pc = "publish" =>
             HasBit(olat, ch_to_bit(gp.pin - 6)) = (gp.value = 1)

\* an open event on DI14 that arrived while the gate was locked has switched
\* relay 8 off
C5_Witness ==
    /\ gp.pin = 14 /\ gp.value = 0 /\ gp.locked0
    /\ gp.calls = 1 /\ gp.call_ch = 8 /\ ~gp.call_on
    /\ gp.pc = "publish"

\* C6: no step of handle_gpio_event for an open event (value = 0) changes the
\* deadline, so the gate is locked after it exactly if it was locked before.
C6_OpenLeavesDeadline ==
    [][((n_events' = n_events + 1 /\ gp'.value = 0)
        \/ (gp.pc = "publish" /\ gp.value = 0 /\ gp'.pc = "idle"))
       => /\ lockout_until' = lockout_until
          /\ is_locked_out(now', lockout_until')
               = is_locked_out(now, lockout_until)]_vars

\* an open event that arrived while the gate was locked has returned and the
\* gate is still locked
C6_Witness ==
    /\ gp.pin = 7 /\ gp.value = 0 /\ gp.locked0
    /\ gp.result = "returned"
    /\ is_locked_out(now, lockout_until)
    /\ lockout_until = closeAt + lockout_seconds

\* C7: only clear_lockout lowers the deadline; the step of a close event that
\* sets it sets it to now + lockout_seconds, which is at least what it was.
C7_DeadlineNeverDecreases ==
    [][/\ lockout_until' < lockout_until =>
            (resp'.kind = "clear" /\ lockout_until' = clear_lockout
             /\ UNCHANGED <<gp, now>>)
       /\ (gp.pc = "publish" /\ gp.value = 1 /\ gp'.pc = "idle") =>
            (lockout_until' = now + lockout_seconds
             /\ lockout_until' >= lockout_until)]_vars

\* a close event that arrived after the first second, while the gate was
\* locked by an earlier one, has set the deadline to now + lockout_seconds
C7_Witness ==
    /\ gp.value = 1 /\ gp.locked0 /\ gp.result = "returned"
    /\ closeAt = now /\ now > 1
    /\ lockout_until = now + lockout_seconds

\* C8: handle_gpio_event never ends with an exception; after a relay write
\* that raised the publish is still attempted (when there is a client), and
\* a close event whose relay write or publish raised still sets the deadline.
C8_NothingPropagates ==
    [][/\ gp'.result # "raised"
       /\ (gp.pc = "publish" /\ gp'.pc = "idle") =>
            /\ gp'.result = "returned"
            /\ gp'.pubs = (IF gate_mqtt THEN 1 ELSE 0)
            /\ gp.value = 1 => lockout_until' = now + lockout_seconds
       /\ (n_events' = n_events + 1 /\ gp'.ch # 0) => gp'.pc = "publish"]_vars

\* a close event whose relay write raised: the publish was attempted, the
\* handler returned and the gate is locked
C8_Witness ==
    /\ gp.value = 1 /\ gp.calls = 1 /\ ~gp.relay_ok
    /\ gp.pubs = 1 /\ gp.result = "returned"
    /\ closeAt = now /\ is_locked_out(now, lockout_until)

\* C9: a POST /api/relay/{ch} that found the gate locked answers 423 with
\* error "locked_out" and the remaining seconds, and publishes nothing.
C9_LockedRelayPostIs423 ==
    [][(resp' # resp /\ resp'.kind = "relay"
        /\ is_locked_out(now, lockout_until)) =>
          /\ resp'.locked
          /\ resp'.status = 423 /\ resp'.error = "locked_out"
          /\ resp'.remaining = remaining_lockout(now', lockout_until)
          /\ resp'.remaining >= 0 /\ resp'.remaining <= lockout_seconds
          /\ ~resp'.published
          /\ queue' = queue /\ n_msgs' = n_msgs]_vars

\* a POST refused with 423 and a positive remaining time although the REST
\* API has a broker client
C9_Witness ==
    /\ resp.kind = "relay" /\ resp.locked /\ resp.status = 423
    /\ resp.remaining > 0 /\ rest_mqtt /\ ~resp.published

\* ===================================================== auto-off timers
\* the timers of a channel that can still fire
PendingTimers(c) ==
    {i \in TimerIds : timer[i].ch = c /\ timer[i].st = "waiting"}

\* C10 as stated: for every channel at most one auto-off timer can still
\* fire, and the timer table's entry for the channel is that timer.
C10_OneTimerPerChannel ==
    \A c \in Channels :
      /\ Cardinality(PendingTimers(c)) <= 1
      /\ \A i \in PendingTimers(c) : timers[c] = i

\* C11 as stated: when the bridge issues the relay command of a set message,
\* every auto-off timer that an earlier message installed for the channel and
\* that had not fired has been cancelled: none can still fire.
C11_EarlierTimerCancelled ==
    [][(br.pc = "set" /\ br'.pc # "set") =>
         \A i \in TimerIds :
            ~(timer[i].ch = br.ch /\ timer[i].st = "waiting")]_vars

\* C12: an auto-off callback that finds the gate locked when it fires goes
\* straight to its finally clause without writing the driver; its last step
\* removes the channel's entry from the timer table, starts no timer and
\* leaves the driver as it was.
C12_LockedAutoOffDropped ==
    [][\A i \in TimerIds :
         /\ (timer[i].st = "waiting" /\ timer'[i].st = "running"
             /\ is_locked_out(now, lockout_until)) =>
               /\ timer'[i].pc = "finally" /\ timer'[i].glocked
               /\ timer'[i].inv = 0
               /\ UNCHANGED drvV
         /\ (timer[i].pc = "finally" /\ timer[i].glocked
             /\ timer'[i] # timer[i]) =>
               /\ timer'[i].st = "finished"
               /\ timers'[timer[i].ch] = NoTimer
               /\ \A j \in TimerIds :
                    timer'[j].st = "waiting" => timer[j].st = "waiting"
               /\ UNCHANGED drvV]_vars

\* an auto-off callback was dropped by the locked gate: the relay it was to
\* switch off is still on and its entry is still in the table
C12_Witness ==
    \E i \in TimerIds :
        /\ timer[i].pc = "finally" /\ timer[i].glocked /\ timer[i].inv = 0
        /\ timers[timer[i].ch] = i
        /\ HasBit(hw_olat, ch_to_bit(timer[i].ch))
        /\ is_locked_out(now, lockout_until)

\* C13 as stated, with the gate never locked: an auto-off callback does not
\* write the driver once the bridge has written the relay for a later set
\* message on its channel (the timer of a later message is installed after
\* that message's relay write, so a later timer on the channel shows it).
C13_LastWriterWins ==
    [][\A i \in TimerIds :
         (timer[i].pc = "call" /\ timer'[i].pc = "finally") =>
            ~\E j \in TimerIds :
                /\ j > i
                /\ timer[j].ch = timer[i].ch
                /\ timer[j].st \in {"waiting", "running"}]_vars

\* ===================================================== the relay driver
\* C14 as stated: after any sequence of set_relay, set_all and all_off
\* calls, failed ones included, the shadow mask equals the last byte that
\* was successfully written to the register (0 if none was).
C14_ShadowIsLastWritten == olat = hw_olat

\* C15 as stated: when the set_relay calls of the three threads, on different
\* channels, have all returned, the mask has every call's bit as that call
\* set it, and the register holds the mask.
C15_NoLostUpdate ==
    (/\ \A t \in Threads : th[t].pc = "done"
     /\ \A t, u \in Threads : t # u => th[t].ch # th[u].ch) =>
        /\ \A t \in Threads : HasBit(olat, ch_to_bit(th[t].ch)) = th[t].on
        /\ hw_olat = olat

\* C16: right after set_relay(ch, v) returned successfully, get_relay(ch)
\* (the channel's bit read from the register) is v.
C16_GetAfterSet ==
    (drv_call.op = "set_relay" /\ drv_call.result = "ok") =>
        get_relay(hw_olat, drv_call.ch) = drv_call.on

\* relay 8 was on and set_relay(8, False) returned: the register has it off
C16_Witness ==
    /\ drv_call.op = "set_relay" /\ drv_call.result = "ok"
    /\ drv_call.ch = 8 /\ ~drv_call.on
    /\ HasBit(drv_call.olat0, 1) /\ ~get_relay(hw_olat, 8)

\* C17: set_relay(ch, on) puts bit 1 << (8 - ch) of the mask in the state
\* on and leaves the bits of the seven other channels as they were, and the
\* mask is what a successful call wrote to the register; ch_to_bit maps
\* 1..8 one-to-one onto the eight single-bit masks, ch1 to 0x80, ch8 to 0x01.
C17_OnlyItsBitChanges ==
    /\ (drv_call.op = "set_relay" /\ drv_call.result \in {"ok", "OSError"}) =>
          /\ HasBit(olat, 2 ^ (8 - drv_call.ch)) = drv_call.on
          /\ \A k \in 0..7 :
                k # 8 - drv_call.ch =>
                    HasBit(olat, 2 ^ k) = HasBit(drv_call.olat0, 2 ^ k)
          /\ drv_call.result = "ok" => hw_olat = olat
    /\ \A a, b \in Channels : a # b => ch_to_bit(a) # ch_to_bit(b)
    /\ {ch_to_bit(c) : c \in Channels} = {2 ^ k : k \in 0..7}
    /\ ch_to_bit(1) = 128 /\ ch_to_bit(8) = 1

\* relays 1 and 8 were on (0x81) and set_relay(1, False) left 0x01
C17_Witness ==
    /\ drv_call.op = "set_relay" /\ drv_call.result = "ok"
    /\ drv_call.ch = 1 /\ ~drv_call.on
    /\ drv_call.olat0 = 129 /\ olat = 1 /\ hw_olat = 1

\* C18: a set_relay or get_relay call with a channel outside 1..8 ends with
\* ValueError, leaves the shadow and the register as they were and makes no
\* I2C transfer.
C18_InvalidChannelRejected ==
    [][(drv_call'.op \in {"set_relay", "get_relay"}
        /\ drv_call'.ch \notin Channels) =>
          /\ drv_call'.result = "ValueError"
          /\ drv_call'.writes = 0
          /\ UNCHANGED <<olat, hw_olat, n_faults>>]_vars

\* set_relay(9, True) was refused with relays on, which stayed as they were
C18_Witness ==
    /\ drv_call.op = "set_relay" /\ drv_call.ch = 9 /\ drv_call.on
    /\ drv_call.result = "ValueError"
    /\ olat = 129 /\ hw_olat = 129

\* ===================================================== REST API
\* C19: with a non-empty key configured, a request to any of the four
\* endpoints whose X-API-Key is absent or differs from the key is answered
\* 403 and changes nothing (no publish, the lockout stays); a request with
\* the key, or any request when the key is empty, is not answered 403.
C19_KeyRequired ==
    [][resp' # resp =>
         IF api_key # "" /\ resp'.x_api_key # api_key
         THEN /\ resp'.status = 403
              /\ ~resp'.published
              /\ UNCHANGED <<now, gateV, cfgV, unitV, drvV, timerV, queue, br,
                             gp, n_msgs, n_events, n_faults>>
         ELSE resp'.status # 403]_vars

\* a clear request without the header was refused while the gate was
\* locked, and the gate is still locked
C19_Witness ==
    /\ api_key = "k"
    /\ resp.kind = "clear" /\ resp.status = 403 /\ resp.x_api_key = ""
    /\ is_locked_out(now, lockout_until)

\* C20: a granted POST /api/emergency/clear reports in was_locked_out the lock
\* state it found, and leaves is_locked_out() false and remaining_lockout() 0;
\* as long as no close event has set the deadline since (closeAt = 0), the
\* gate stays unlocked.
C20_ClearAlwaysClears ==
    [][/\ (/\ resp'.kind = "clear" /\ resp'.status = 200
           /\ UNCHANGED <<now, gp, n_events>>
           /\ (resp' # resp \/ lockout_until' # lockout_until)) =>
              /\ resp'.locked = is_locked_out(now, lockout_until)
              /\ ~is_locked_out(now', lockout_until')
              /\ remaining_lockout(now', lockout_until') = 0
       /\ closeAt' = 0 =>
              /\ ~is_locked_out(now', lockout_until')
              /\ remaining_lockout(now', lockout_until') = 0]_vars

\* the gate was locked by a close event, the clear reported it and unlocked
\* the gate before the deadline that event had set
C20_Witness ==
    /\ resp.kind = "clear" /\ resp.status = 200 /\ resp.locked
    /\ gp.value = 1 /\ gp.result = "returned"
    /\ closeAt = 0 /\ lockout_until = clear_lockout
    /\ ~is_locked_out(now, lockout_until)
    /\ n_events = 1 /\ now <= lockout_seconds

\* C21: an admitted POST /api/relay/{ch} that found the gate not locked
\* publishes, when the REST API has a broker client, exactly one message, to
\* the set topic of the requested channel with the requested value,
\* duration_sec and reason, and answers 202; without a client it publishes
\* nothing and answers 503 "mqtt_unavailable". The driver is not written.
C21_UnlockedRelayPost ==
    [][(/\ resp' # resp \/ n_msgs' # n_msgs
        /\ resp'.kind = "relay" /\ resp'.status # 403
        /\ ~is_locked_out(now, lockout_until)) =>
          LET rq == resp'.rq[1]
          IN  /\ IF rest_mqtt
                 THEN /\ queue' = Append(queue, [ch |-> rq.ch,
                                                 value |-> rq.value,
                                                 dur |-> rq.dur,
                                                 reason |-> rq.reason])
                      /\ n_msgs' = n_msgs + 1
                      /\ resp'.status = 202 /\ resp'.published
                 ELSE /\ queue' = queue /\ n_msgs' = n_msgs
                      /\ resp'.status = 503
                      /\ resp'.error = "mqtt_unavailable"
                      /\ ~resp'.published
              /\ UNCHANGED <<olat, hw_olat>>]_vars

\* a second POST, for channel 2 with a duration, was answered 202 and its
\* message is the last one published; no relay has been written
C21_Witness ==
    /\ rest_mqtt /\ ~is_locked_out(now, lockout_until)
    /\ resp.kind = "relay" /\ resp.status = 202
    /\ resp.rq = <<[ch |-> 2, value |-> 1, dur |-> TRUE, reason |-> "mist"]>>
    /\ Len(queue) = 2 /\ queue[2] = resp.rq[1] /\ queue[1].ch = 1
    /\ olat = 0 /\ hw_olat = 0

\* C22: an admitted GET /api/status answers 200 whether or not the gate is
\* locked, with locked_out equal to the gate's lock state, and changes
\* nothing: no driver write, no publish, the deadline as it was.
C22_StatusReadOnly ==
    [][(resp' # resp /\ resp'.kind = "status" /\ resp'.status # 403) =>
          /\ resp'.status = 200
          /\ resp'.locked = is_locked_out(now, lockout_until)
          /\ resp'.locked = is_locked_out(now', lockout_until')
          /\ ~resp'.published
          /\ UNCHANGED <<olat, hw_olat, queue, n_msgs, lockout_until, closeAt,
                         gp, n_events, n_faults>>]_vars

\* a status read during the lockout that followed an emergency close: 200,
\* locked_out true, and the relay the switch turned on in relay_state
C22_Witness ==
    /\ resp.kind = "status" /\ resp.status = 200
    /\ resp.locked /\ resp.remaining > 0
    /\ is_locked_out(now, lockout_until)
    /\ resp.relay_state = hw_olat /\ hw_olat = ch_to_bit(1)

\* ===================================================== the tasks of run()
\* C23: while run() has not been stopped the GPIO watcher task is running,
\* whichever of the sensor loop, the multicast receiver, the bridge task and
\* the REST API task have returned or raised; a close event on a mapped pin
\* delivered after all four ended still calls the driver once for its relay
\* and sets the deadline to now + lockout_seconds.
C23_WatcherSurvives ==
    [][/\ tasks'["run"] = "running" => tasks'["gpio_watch"] = "running"
       /\ (/\ n_events' = n_events + 1
           /\ gp'.alone /\ gp'.value = 1 /\ gp'.ch # 0) =>
              /\ gp'.calls = 1 /\ gp'.call_on
              /\ gp'.call_ch = gp'.pin - 6
       /\ (/\ gp.pc = "publish" /\ gp'.pc = "idle"
           /\ gp.alone /\ gp.value = 1) =>
              /\ lockout_until' = now + lockout_seconds
              /\ is_locked_out(now', lockout_until')]_vars

\* the four other tasks have ended, two of them by raising; the close event
\* that came afterwards turned relay 1 on and locked the gate
C23_Witness ==
    /\ tasks["run"] = "running" /\ tasks["gpio_watch"] = "running"
    /\ tasks["sensor_loop"] = "failed" /\ tasks["mqtt_loop"] = "failed"
    /\ tasks["rest_api"] = "done" /\ tasks["ccm_loop"] = "done"
    /\ gp.alone /\ gp.pin = 7 /\ gp.value = 1 /\ gp.result = "returned"
    /\ gp.calls = 1 /\ gp.relay_ok /\ HasBit(hw_olat, ch_to_bit(1))
    /\ is_locked_out(now, lockout_until)

\* ===================================================== the GPIO watcher
\* the events of mapped line offsets among raws, in the order of raws
MappedInOrder(raws) ==
    LET m == SelectSeq(raws, LAMBDA r : GPIO_DI_MAP(r.line_offset) # 0)
    IN  [i \in 1..Len(m) |-> to_gpio_event(m[i])]

\* the events the callback has been called with, in call order
CalledWith == [i \in 1..Len(wt.calls) |-> wt.calls[i].event]

\* C24: the callback invocations so far, followed by the events of the batch
\* still waiting in _on_readable's loop, are exactly the edge events read
\* from the descriptor that have a mapped line offset, in the order read:
\* nothing reordered, nothing twice, nothing left out.
C24_DeliveredInKernelOrder ==
    CalledWith \o wt.events = MappedInOrder(wt.reported)

\* two reads: a close of DI07 with an edge of an unknown line, then an open
\* of DI08; the callback saw the close of DI07 and then the open of DI08
C24_Witness ==
    /\ wt.reads = 2 /\ wt.events = <<>>
    /\ wt.reported = <<[line_offset |-> 11, event_type |-> "FALLING_EDGE"],
                       [line_offset |-> 5, event_type |-> "FALLING_EDGE"],
                       [line_offset |-> 7, event_type |-> "RISING_EDGE"]>>
    /\ Len(wt.calls) = 2
    /\ wt.calls[1].event = [di_pin |-> 7, gpio_line |-> 11, value |-> 1]
    /\ wt.calls[2].event = [di_pin |-> 8, gpio_line |-> 7, value |-> 0]
    /\ wt.calls[1].read = 1 /\ wt.calls[2].read = 2

\* C25: a callback that raised leaves the rest of its batch waiting for
\* delivery and the reader registered; the reader is removed only by the
\* cancellation of watch(), never inside a batch.
C25_CallbackErrorContained ==
    [][/\ (/\ Len(wt'.calls) = Len(wt.calls) + 1
           /\ ~wt'.calls[Len(wt'.calls)].ok) =>
              /\ wt'.events = Tail(wt.events)
              /\ wt'.reader = wt.reader
       /\ (wt.reader /\ ~wt'.reader) =>
              /\ wt.events = <<>>
              /\ wt'.calls = wt.calls]_vars

\* the first callback of a batch of two raised, the second event of the
\* batch was delivered all the same, and so was an event read later
C25_Witness ==
    /\ Len(wt.calls) = 3
    /\ ~wt.calls[1].ok /\ wt.calls[1].read = 1
    /\ wt.calls[2].read = 1
    /\ wt.calls[3].read = 2
    /\ wt.reader

\* ===================================================== weather frames
\* the low 8 bits of the sum of bytes 0..15 equal byte 16
ChecksumHolds(d) ==
    (d[1] + d[2] + d[3] + d[4] + d[5] + d[6] + d[7] + d[8] + d[9] + d[10]
       + d[11] + d[12] + d[13] + d[14] + d[15] + d[16]) % 256 = d[17]

\* C26: verify_checksum(data) is true exactly when data has at least 17
\* bytes and the low 8 bits of the sum of bytes 0..15 equal byte 16; a valid
\* frame in which one of bytes 0..15 was changed does not verify.
C26_ChecksumIff ==
    ws.pc \in {"verified", "parsed", "read"} =>
        /\ ws.valid = (Len(ws.data) >= 17 /\ ChecksumHolds(ws.data))
        /\ ws.changed \in 1..16 => ~ws.valid

\* a frame whose bytes 0..15 add up to more than 255 was sent valid, its
\* byte 2 changed, and it did not verify
C26_Witness ==
    /\ ws.pc = "verified" /\ ws.changed = 3 /\ ~ws.valid
    /\ ChecksumHolds(ws.sent)
    /\ SumSeq(SubSeq(ws.sent, 1, 16)) > 255
    /\ ws.data[3] # ws.sent[3]

\* the 17 bytes from the first sync byte of the stream on; <<>> when the
\* stream has no sync byte or fewer than 17 bytes from it
Candidate(stream) ==
    LET at == {i \in 1..Len(stream) : stream[i] = 36}
    IN  IF at = {} THEN <<>>
        ELSE LET first == CHOOSE i \in at : \A j \in at : i <= j
             IN  IF first + 16 > Len(stream) THEN <<>>
                 ELSE SubSeq(stream, first, first + 16)

\* C27: when the candidate frame of the byte stream is missing or fails the
\* checksum, read_frame yields no frame, parse_frame is not called and
\* nothing is published; whatever is published decodes a frame that verified.
C27_DecodedOnlyIfVerified ==
    ws.pc = "read" =>
        LET c == Candidate(ws.stream)
        IN  /\ (c = <<>> \/ ~ChecksumHolds(c)) =>
                  /\ ws.frame = NoFrame
                  /\ ws.parse_calls = 0
                  /\ ws.published = <<>>
            /\ (ws.parse_calls > 0 \/ ws.published # <<>>) =>
                  /\ c # <<>> /\ ChecksumHolds(c)
                  /\ SubSeq(ws.frame, 1, 17) = c

\* a frame whose checksum byte changed on the line, read after two bytes of
\* noise: no frame, no decoding, no publish
C27_Witness ==
    /\ ws.pc = "read" /\ ws.changed = 17
    /\ Len(ws.stream) = 19 /\ ws.stream[1] = 0 /\ ws.stream[3] = 36
    /\ ws.frame = NoFrame /\ ws.parse_calls = 0 /\ ws.published = <<>>

\* C28: in the result of parse_frame wind direction, temperature, wind
\* speed, gust, UV and illuminance are absent exactly when their raw bit
\* group (low byte plus the bits of byte 3, or the bytes of the field) is
\* the field's sentinel, each independently of the others; humidity,
\* rainfall and the battery flag are always present.
C28_SentinelsAbsent ==
    (ws.pc \in {"parsed", "read"} /\ Len(ws.data) >= 17) =>
        LET d == ws.data
            p == ws.parsed
            b3 == d[4]
        IN  /\ ~p.raised
            /\ (p.wind_dir_deg = None)
                  = (d[3] + (IF b3 >= 128 THEN 256 ELSE 0) = 511)
            /\ (p.temperature_c = None) = (d[5] + 256 * (b3 % 8) = 2047)
            /\ (p.wind_speed_ms = None)
                  = (d[7] + 256 * ((b3 \div 16) % 2) = 511)
            /\ (p.gust_speed_ms = None) = (d[8] = 255)
            /\ (p.uv_wm2 = None) = (256 * d[11] + d[12] = 65535)
            /\ (p.light_lux = None)
                  = (65536 * d[13] + 256 * d[14] + d[15] = 16777215)
            /\ p.humidity_pct # None /\ p.humidity_pct = d[6]
            /\ p.rainfall_mm # None
            /\ p.battery_low = ((b3 \div 8) % 2 = 1)

\* wind direction and UV at their sentinels are absent while temperature
\* and wind speed, whose low bytes alone are all ones, and the gust and the
\* illuminance beside them are decoded
C28_Witness ==
    /\ ws.pc = "parsed" /\ ws.changed = 0 /\ Len(ws.data) = 17
    /\ ws.parsed.wind_dir_deg = None /\ ws.parsed.uv_wm2 = None
    /\ ws.data[5] = 255 /\ ws.parsed.temperature_c = 1023 - 400
    /\ ws.data[7] = 255 /\ ws.parsed.wind_speed_ms = 255 * 14
    /\ ws.parsed.gust_speed_ms = 8 * 112
    /\ ws.parsed.light_lux = 16776960
    /\ ws.parsed.battery_low

\* ===================================================== unmapped pins, notice
\* C29: the delivery of an event whose DI pin has no relay (outside 7..14)
\* is the whole handling of it: the handler has returned, the driver was not
\* called, nothing was published, and the shadow, the register and the
\* deadline are as they were, also for value = 1.
C29_UnmappedPinIgnored ==
    [][(n_events' = n_events + 1 /\ ~(gp'.pin \in 7..14)) =>
          /\ gp'.pc = "idle" /\ gp'.result = "returned"
          /\ gp'.calls = 0 /\ gp'.pubs = 0 /\ gp'.payload = <<>>
          /\ UNCHANGED <<olat, hw_olat, lockout_until, closeAt, queue,
                         n_msgs>>]_vars

\* a close event on DI06 has been handled: no relay is on, the gate is open
C29_Witness ==
    /\ gp.pin = 6 /\ gp.value = 1 /\ gp.result = "returned"
    /\ n_events = 1 /\ gp.calls = 0 /\ gp.pubs = 0
    /\ olat = 0 /\ hw_olat = 0
    /\ lockout_until = 0 /\ ~is_locked_out(now, lockout_until)

\* C30: when handle_gpio_event ends for a mapped event, with a broker client
\* it has made exactly one publish, to the emergency/override topic with QoS
\* 1 and retain, carrying di_pin, relay_ch = di_pin - 6, state = (value = 1)
\* and lockout_sec = the configured lockout for a close event and 0 for an
\* open event; without a client it has published nothing, and the relay
\* call and, for a close event, the lockout have still been made.
C30_OverrideNotice ==
    [][(gp.pc = "publish" /\ gp'.pc = "idle") =>
          /\ gp'.pin \in 7..14 /\ gp'.calls = 1
          /\ gp'.value = 1 => lockout_until' = now + lockout_seconds
          /\ IF gate_mqtt
             THEN /\ gp'.pubs = 1
                  /\ gp'.payload =
                       <<[topic |-> "emergency/override", qos |-> 1,
                          retain |-> TRUE, di_pin |-> gp'.pin,
                          relay_ch |-> gp'.pin - 6,
                          state |-> (gp'.value = 1),
                          lockout_sec |-> IF gp'.value = 1
                                          THEN lockout_seconds ELSE 0]>>
             ELSE gp'.pubs = 0 /\ gp'.payload = <<>>]_vars

\* the notice of an open event on DI14: relay 8, state false, lockout_sec 0
C30_Witness ==
    /\ gate_mqtt /\ gp.result = "returned" /\ gp.pubs = 1
    /\ gp.pin = 14 /\ gp.value = 0 /\ gp.calls = 1
    /\ Len(gp.payload) = 1
    /\ gp.payload[1].relay_ch = 8 /\ ~gp.payload[1].state
    /\ gp.payload[1].lockout_sec = 0 /\ gp.payload[1].retain

\* ===================================================== shutdown
\* C31: once the signal has come no task is left running uncancelled;
\* nothing is closed before every task has ended; run() closes the gate's
\* broker client, then the sensor loop's, then the relay driver; the tasks
\* that raised are the ones logged and run() does not end with their
\* exception; and from the signal on run() eventually returns.
C31_OrderlyShutdown ==
    /\ [](sd.pc # "waiting" => \A t \in AllTasks : tasks[t] # "running")
    /\ [](sd.closes # <<>> => \A t \in AllTasks : tasks[t] \in Finished)
    /\ [](sd.pc # "raised")
    /\ [](sd.pc = "stopped" =>
            /\ sd.logged = {t \in AllTasks : tasks[t] = "failed"}
            /\ sd.closes =
                 (IF gate_mqtt THEN <<"gate_mqtt_client">> ELSE <<>>)
                 \o (IF sd.sensor_mqtt THEN <<"sensor_mqtt_client">>
                     ELSE <<>>)
                 \o <<"relay">>)
    /\ (sd.pc = "gather") ~> (sd.pc = "stopped")

\* run() has returned after a shutdown in which the bridge task raised while
\* it was being cancelled and the sensor loop had raised before the signal:
\* both are logged, both clients and the relay driver are closed
C31_Witness ==
    /\ sd.pc = "stopped" /\ tasks["run"] = "stopped"
    /\ tasks["mqtt_loop"] = "failed" /\ tasks["sensor_loop"] = "failed"
    /\ tasks["gpio_watch"] = "cancelled"
    /\ sd.logged = {"mqtt_loop", "sensor_loop"}
    /\ sd.closes = <<"gate_mqtt_client", "sensor_mqtt_client", "relay">>

\* ===================================================== the sensor cache
\* C32: a change made to the mapping get_all returned leaves what the cache
\* holds (what a later get_all returns) as it was, and an update of the
\* cache leaves the mapping returned earlier as it was.
C32_DeepCopy ==
    /\ [][sc'.op = "mutate" =>
            Contents(sc', DataDict) = Contents(sc, DataDict)]_vars
    /\ [][(sc'.op = "update" /\ sc.returned # NoDict) =>
            Contents(sc', sc.returned) = Contents(sc, sc.returned)]_vars

\* the caller changed the object of a key in the mapping it was given (the
\* cache's object for the key is older than the copy's and still has the old
\* reading), and then the cache was updated under another key, which the
\* caller's mapping still lacks
C32_Witness ==
    /\ sc.op = "update" /\ sc.returned = CopyDict
    /\ \E k1, k2 \in Topics :
         /\ k1 # k2
         /\ sc.dicts[DataDict][k1] # NoLeaf
         /\ sc.dicts[CopyDict][k1] > sc.dicts[DataDict][k1]
         /\ Contents(sc, CopyDict)[k1] # Contents(sc, DataDict)[k1]
         /\ sc.dicts[DataDict][k2] > sc.dicts[CopyDict][k1]
         /\ sc.dicts[CopyDict][k2] = NoLeaf

\* ===================================================== auto-off
\* C33 as stated, for the later command: when the handler of a set message
\* that cancelled the channel's pending auto-off timer ends and its relay
\* command was dropped by the gate or raised, the channel is not left on in
\* the register without an auto-off timer that can still fire.
C33_AutoOffHonoured ==
    [][(/\ br.pc # "idle" /\ br'.pc = "idle"
        /\ br.existing # NoTimer
        /\ timer[br.existing].st = "cancelled"
        /\ br'.ret \in {"False", "raised"}
        /\ HasBit(hw_olat', ch_to_bit(br.ch))) =>
          \E i \in TimerIds :
             timer'[i].ch = br.ch /\ timer'[i].st = "waiting"]_vars

Undecodable ==
    {msg \in SetMessages :
        \/ msg.topic_ch \notin {"1", "2", "3", "4", "5", "6", "7", "8"}
        \/ msg.payload \notin {"{\"value\": 1, \"duration_sec\": 5}", "{}",
                                "{\"value\": 0}"}}

\* C35: the step in which the handler takes a message that cannot be decoded
\* changes neither the driver nor the timer table nor any timer, starts no
\* command, and leaves the handler ready for the next message.
C35_UndecodableDropped ==
    [][(br.pc = "idle" /\ queue # <<>> /\ queue' = Tail(queue)
        /\ Head(queue) \in Undecodable) =>
          /\ olat' = olat /\ hw_olat' = hw_olat
          /\ timers' = timers /\ timer' = timer
          /\ n_faults' = n_faults
          /\ br'.pc = "idle"
          /\ br'.dropped = br.dropped + 1]_vars

\* a message for channel 1 was dropped while the auto-off timer of channel 1
\* was pending: the timer is still the table's entry and can still fire
C35_Witness ==
    /\ br.dropped >= 1
    /\ br.kept # NoTimer
    /\ timers[1] = br.kept
    /\ timer[br.kept].st = "waiting" /\ timer[br.kept].ch = 1

\* ===================================================== the timer lock
\* C36: _timers_lock is held only inside a table access, never at a relay
\* or gate call; whoever holds it can always go on to release it; while
\* disconnect() waits in loop_stop() for the handler, the handler can go
\* on, or waits for the lock held by a callback; and a gate call is never
\* kept waiting, whether the gate is locked or not.
C36_NoDeadlock ==
    /\ lk.holder = "handler" => br.pc \in {"pop", "store"}
    /\ lk.holder = "timer" => timer[lk.id].pc = "pop"
    /\ lk.holder = "disconnect" => lk.dc = "locked"
    /\ lk.holder # "none" => ENABLED HolderStep
    /\ (lk.dc = "loop_stop" /\ br.pc # "idle") =>
          (ENABLED HandlerStep) \/ lk.holder = "timer"
    /\ br.pc = "set" => ENABLED BridgeSetRelay
    /\ \A i \in TimerIds : timer[i].st = "waiting" => ENABLED TimerFire(i)

\* during lockout disconnect() holds the lock while the handler, whose
\* command the gate dropped, waits for it to store its timer and an
\* auto-off callback waits for it in its finally clause
C36_Witness ==
    /\ is_locked_out(now, lockout_until)
    /\ lk.holder = "disconnect"
    /\ br.pc = "install" /\ br.ret = "False"
    /\ \E i \in TimerIds : timer[i].st = "running" /\ timer[i].pc = "finally"

\* the edges read so far on the line offsets of the DI pins 7..14
EdgesOnInputs ==
    SelectSeq(wt.reported,
              LAMBDA r : \E p \in 7..14 : DI_GPIO_MAP(p) = r.line_offset)

\* C37: the k-th call of the callback is for the k-th edge read on the line
\* of a DI pin: its di_pin is the pin of that line, its value is 1 for a
\* falling edge and 0 for a rising one; edges on other line offsets are not
\* among the calls.
C37_EdgesTranslated ==
    /\ Len(wt.calls) <= Len(EdgesOnInputs)
    /\ \A k \in 1..Len(wt.calls) :
         LET e   == wt.calls[k].event
             raw == EdgesOnInputs[k]
         IN  /\ e.di_pin \in 7..14
             /\ DI_GPIO_MAP(e.di_pin) = raw.line_offset
             /\ e.gpio_line = raw.line_offset
             /\ raw.event_type = "FALLING_EDGE" => e.value = 1
             /\ raw.event_type = "RISING_EDGE" => e.value = 0

\* the switch on DI 7 (line 11) closed and opened again, with an edge on
\* line 5 in between: the callback was called for closed, then for open
C37_Witness ==
    /\ Len(wt.reported) = 3
    /\ wt.reported[1] = [line_offset |-> 11, event_type |-> "FALLING_EDGE"]
    /\ wt.reported[2].line_offset = 5
    /\ wt.reported[3] = [line_offset |-> 11, event_type |-> "RISING_EDGE"]
    /\ Len(wt.calls) = 2
    /\ wt.calls[1].event.di_pin = 7 /\ wt.calls[1].event.value = 1
    /\ wt.calls[2].event.di_pin = 7 /\ wt.calls[2].event.value = 0

\* ===================================================== disconnect()
\* C38 as stated: once disconnect() has returned the timer table is empty
\* and no auto-off timer can still fire, and no auto-off callback calls the
\* relay driver after that, in particular not after relay.close().
C38_NoAutoOffAfterDisconnect ==
    /\ [](lk.dc = "done" =>
            /\ \A c \in Channels : timers[c] = NoTimer
            /\ \A i \in TimerIds : timer[i].st # "waiting")
    /\ [][\A i \in TimerIds :
            (timer[i].pc = "call" /\ timer'[i].pc # "call") =>
               lk.dc # "done" /\ ~lk.closed]_vars

\* ===================================================== read_frame
\* C39: a call of read_frame returns; what it returns is no frame or 17 or
\* 21 bytes that begin with 0x24, whose first 17 bytes pass the checksum
\* and are the bytes read from the first sync byte on; it is no frame when
\* no sync byte was read, when fewer than 16 bytes followed it, or when the
\* checksum fails.
C39_ReadFrameReturns ==
    /\ [](rf.pc = "returned" =>
            LET c == Candidate(rf.consumed)
            IN  /\ (c = <<>> \/ ~ChecksumHolds(c)) => rf.result = NoFrame
                /\ rf.result # NoFrame =>
                      /\ Len(rf.result) \in {17, 21}
                      /\ rf.result[1] = 36
                      /\ SubSeq(rf.result, 1, 17) = c
                      /\ ChecksumHolds(c)
                      /\ \E k \in 1..Len(rf.consumed) :
                            /\ \A j \in 1..(k - 1) : rf.consumed[j] # 36
                            /\ rf.result = SubSeq(rf.consumed, k,
                                                  k + Len(rf.result) - 1))
    /\ (rf.pc = "sync") ~> (rf.pc = "returned")

\* after two bytes of noise and a read that timed out the sync byte was
\* read before the deadline, and the call returned the 21 bytes from it on
C39_Witness ==
    /\ rf.pc = "returned"
    /\ rf.clock = 4
    /\ Len(rf.consumed) = 23 /\ rf.consumed[1] = 0 /\ rf.consumed[3] = 36
    /\ Len(rf.result) = 21 /\ rf.result[1] = 36

\* ===================================================== GET /api/sensors
\* C40 as stated: in every response of GET /api/sensors sensors is empty
\* exactly when updated_at is 0, and age_sec is null exactly then.
C40_ConsistentSnapshot ==
    sc.response.sent =>
        /\ (\A k \in Topics : sc.response.sensors[k] = 0)
              <=> (sc.response.updated_at = 0)
        /\ sc.response.age_null <=> (sc.response.updated_at = 0)

====
